---- MODULE Spec2Model ----
(***************************************************************************)
(* Model of the task store of personal_task_mgr (src/src/lib/store.ts) and *)
(* of the import engine that drives it.  The SQLite tables are the fields  *)
(* of the record db; every exported store function is a pure operator      *)
(* from (db, arguments, clock reading, fresh ids) to the new db and the    *)
(* returned value, and one action applies it.                              *)
(***************************************************************************)
EXTENDS Integers, Sequences, FiniteSets, TLC

VARIABLES db, now, last

vars == <<db, now, last>>

(***************************************************************************)
(* Bounds of the model.                                                    *)
(***************************************************************************)
MaxTasks == 3
MaxClock == 1
MaxEntries == 2
MaxImported == 1

(***************************************************************************)
(* Program constants and value encodings.                                  *)
(***************************************************************************)
INBOX_PROJECT_ID == "proj-inbox"

TASK_STATUSES == <<"todo", "in_progress", "blocked", "parking_lot", "done">>

RECURRENCES == {"none", "daily", "weekly"}

\* Task ids are ordered like the id strings SQLite compares; EmptyId is "".
TaskIds == 1..MaxTasks

EmptyId == 0

\* The ids createId("proj") and createId("entry") draw from.
ProjectIds == {"p1", "p2"}

EntryIds == 1..MaxEntries

\* JavaScript null, one encoding per type of the field that holds it.
NullId == "<null>"

NullText == <<"<null>">>

NullTime == -1

\* A date string: null, "", a string Date cannot parse, or a parseable date
\* (written date-only or as an ISO instant) on calendar day `day`.
NullDate == [kind |-> "null", fmt |-> "-", day |-> 0]

EmptyDate == [kind |-> "empty", fmt |-> "-", day |-> 0]

InvalidDate == [kind |-> "invalid", fmt |-> "-", day |-> 0]

DateOnly(d) == [kind |-> "valid", fmt |-> "date", day |-> d]

IsoDate(d) == [kind |-> "valid", fmt |-> "iso", day |-> d]

(***************************************************************************)
(* Helpers.                                                                *)
(***************************************************************************)
Range(s) == {s[i] : i \in 1..Len(s)}

Has(rec, f) == f \in DOMAIN rec

Max(S) == CHOOSE x \in S : \A y \in S : y <= x

Min(S) == CHOOSE x \in S : \A y \in S : x <= y

SeqsUpTo(S, n) == UNION {[1..k -> S] : k \in 0..n}

\* The members of S listed by the strict total order Before.
Sorted(S, Before(_, _)) ==
  [i \in 1..Cardinality(S) |->
     CHOOSE x \in S : Cardinality({y \in S : Before(y, x)}) = i - 1]

IndexOf(s, x) == CHOOSE i \in 1..Len(s) : s[i] = x

\* The characters \s matches and trim() strips.
WhiteSpace == {" ", "\t", "\r", "\n"}

\* String.prototype.trim on a sequence of characters.
RECURSIVE TrimLeft(_)
TrimLeft(s) ==
  IF s = <<>> THEN s ELSE IF Head(s) \in WhiteSpace THEN TrimLeft(Tail(s)) ELSE s

RECURSIVE TrimRight(_)
TrimRight(s) ==
  IF s = <<>> THEN s
  ELSE IF s[Len(s)] \in WhiteSpace THEN TrimRight(SubSeq(s, 1, Len(s) - 1)) ELSE s

Trim(s) == TrimRight(TrimLeft(s))

\* Array.from(new Set(ids)): first occurrences, in order.
RECURSIVE Dedup(_)
Dedup(s) ==
  IF s = <<>> THEN <<>>
  ELSE LET init == Dedup(SubSeq(s, 1, Len(s) - 1))
           x == s[Len(s)]
       IN IF x \in Range(init) THEN init ELSE Append(init, x)

\* ids.filter(Boolean): the empty string is dropped.
FilterBoolean(s) == SelectSeq(s, LAMBDA x : x # EmptyId)

(***************************************************************************)
(* Lane ordering.                                                          *)
(***************************************************************************)
Lane(T, status) == {id \in DOMAIN T : T[id].status = status}

\* LaneBefore with updated_at ascending.
LaneBefore_OldestFirst(T, a, b) ==
  \/ T[a].order < T[b].order
  \/ T[a].order = T[b].order /\ T[a].updatedAt < T[b].updatedAt
  \/ T[a].order = T[b].order /\ T[a].updatedAt = T[b].updatedAt /\ a < b

\* ORDER BY order_index ASC, updated_at DESC, id ASC
LaneBefore(T, a, b) ==
  \/ T[a].order < T[b].order
  \/ T[a].order = T[b].order /\ T[a].updatedAt > T[b].updatedAt
  \/ T[a].order = T[b].order /\ T[a].updatedAt = T[b].updatedAt /\ a < b

\* ORDER BY order_index ASC, created_at ASC, updated_at ASC, id ASC
NormalizeBefore(T, a, b) ==
  \/ T[a].order < T[b].order
  \/ T[a].order = T[b].order /\ T[a].createdAt < T[b].createdAt
  \/ /\ T[a].order = T[b].order /\ T[a].createdAt = T[b].createdAt
     /\ T[a].updatedAt < T[b].updatedAt
  \/ /\ T[a].order = T[b].order /\ T[a].createdAt = T[b].createdAt
     /\ T[a].updatedAt = T[b].updatedAt /\ a < b

LaneRows(T, status) == Sorted(Lane(T, status), LAMBDA a, b : LaneBefore(T, a, b))

\* rows.forEach((row, index) => UPDATE tasks SET order_index = index)
Reindex(T, rows) ==
  [id \in DOMAIN T |->
     IF id \in Range(rows) THEN [T[id] EXCEPT !.order = IndexOf(rows, id) - 1]
     ELSE T[id]]

RECURSIVE NormalizeLanes(_, _)
NormalizeLanes(T, k) ==
  IF k > Len(TASK_STATUSES) THEN T
  ELSE LET status == TASK_STATUSES[k]
           rows == Sorted(Lane(T, status), LAMBDA a, b : NormalizeBefore(T, a, b))
       IN NormalizeLanes(Reindex(T, rows), k + 1)

\* normalizeTaskOrder that leaves every lane as it finds it.
normalizeTaskOrder_Skipped(T) == T

normalizeTaskOrder(T) == NormalizeLanes(T, 1)

\* RepairLane that renumbers nothing.
RepairLane_NoRenumber(T, status) == T

\* The lane repair after a delete and of the source lane of a reorder.
RepairLane(T, status) == Reindex(T, LaneRows(T, status))

getNextTaskOrder(T, status) ==
  IF Lane(T, status) = {} THEN 0
  ELSE Max({T[id].order : id \in Lane(T, status)}) + 1

(***************************************************************************)
(* Projects.                                                               *)
(***************************************************************************)
projectExists(P, projectId) == projectId \in DOMAIN P

InboxProject(ts) ==
  [title |-> <<"I", "n", "b", "o", "x">>, description |-> <<"S">>,
   status |-> "active", dueDate |-> NullDate,
   completionPercent |-> 0, source |-> "mission_control",
   createdAt |-> ts, updatedAt |-> ts]

ensureInboxProject(P, ts) ==
  IF INBOX_PROJECT_ID \in DOMAIN P THEN P
  ELSE (INBOX_PROJECT_ID :> InboxProject(ts)) @@ P

(***************************************************************************)
(* createTask                                                              *)
(***************************************************************************)
Coalesce(rec, f, null, default) ==
  IF Has(rec, f) /\ rec[f] # null THEN rec[f] ELSE default

\* addRecurrenceDate that moves weekly dates by one day as well.
addRecurrenceDate_OneDay(date, recurrence) ==
  IF date.kind \in {"null", "empty"} \/ recurrence = "none" THEN date
  ELSE IF date.kind = "invalid" THEN date
  ELSE IsoDate(date.day + 1)

\* if (!date || recurrence === "none") return date; an unparseable string is
\* returned as it is; otherwise setDate(getDate() + 1 or 7), toISOString().
addRecurrenceDate(date, recurrence) ==
  IF date.kind \in {"null", "empty"} \/ recurrence = "none" THEN date
  ELSE IF date.kind = "invalid" THEN date
  ELSE IsoDate(date.day + (IF recurrence = "daily" THEN 1 ELSE 0)
                        + (IF recurrence = "weekly" THEN 7 ELSE 0))

createTask(d, input, id, ts) ==
  LET status == IF Has(input, "status") THEN input.status ELSE "todo"
      rec0 == IF Has(input, "recurrence") THEN input.recurrence ELSE "none"
      recurrence == IF rec0 \in RECURRENCES THEN rec0 ELSE "none"
      pid0 == Coalesce(input, "projectId", NullId, INBOX_PROJECT_ID)
      known == projectExists(d.projects, pid0)
      P == IF known THEN d.projects ELSE ensureInboxProject(d.projects, ts)
      det0 == IF Has(input, "details") /\ input.details # NullText
              THEN Trim(input.details) ELSE <<>>
      item == [title |-> Trim(input.title),
               details |-> IF det0 = <<>> THEN NullText ELSE det0,
               status |-> status,
               priority |-> IF Has(input, "priority") THEN input.priority ELSE "medium",
               dueDate |-> IF Has(input, "dueDate") THEN input.dueDate ELSE NullDate,
               scheduledAt |-> IF Has(input, "scheduledAt") THEN input.scheduledAt ELSE NullDate,
               completedAt |-> IF status = "done" THEN ts ELSE NullTime,
               projectId |-> IF known THEN pid0 ELSE INBOX_PROJECT_ID,
               source |-> IF Has(input, "source") THEN input.source ELSE "mission_control",
               order |-> getNextTaskOrder(d.tasks, status),
               recurrence |-> recurrence,
               createdAt |-> ts,
               updatedAt |-> ts]
  IN [d EXCEPT !.tasks = (id :> item) @@ d.tasks, !.projects = P]

(***************************************************************************)
(* updateTask                                                              *)
(***************************************************************************)
\* The successor of a completed recurring task.
SuccessorInput(item) ==
  [title |-> item.title, details |-> item.details, status |-> "todo",
   priority |-> item.priority,
   dueDate |-> addRecurrenceDate(item.dueDate, item.recurrence),
   scheduledAt |-> addRecurrenceDate(item.scheduledAt, item.recurrence),
   projectId |-> item.projectId, source |-> item.source,
   recurrence |-> item.recurrence]

\* SpawnsSuccessor that does not look at the status the call found.
SpawnsSuccessor_WheneverDone(current, item) ==
  item.status = "done" /\ item.recurrence # "none"

\* if (current.status !== "done" && item.status === "done" && item.recurrence !== "none")
SpawnsSuccessor(current, item) ==
  current.status # "done" /\ item.status = "done" /\ item.recurrence # "none"

\* The row updateTask writes for the task `current` (patch.order is an integer
\* here, so Math.trunc leaves it as it is).
PatchedTask(T, P, current, patch, ts) ==
  LET nextStatus == IF Has(patch, "status") THEN patch.status ELSE current.status
      nextOrder == IF Has(patch, "order")
                   THEN (IF patch.order < 0 THEN 0 ELSE patch.order)
                   ELSE IF nextStatus # current.status
                        THEN getNextTaskOrder(T, nextStatus)
                        ELSE current.order
  IN [current EXCEPT
        !.title = IF Has(patch, "title") THEN Trim(patch.title) ELSE @,
        !.details = IF Has(patch, "details") THEN patch.details ELSE @,
        !.status = nextStatus,
        !.priority = IF Has(patch, "priority") THEN patch.priority ELSE @,
        !.dueDate = IF Has(patch, "dueDate") THEN patch.dueDate ELSE @,
        !.scheduledAt = IF Has(patch, "scheduledAt") THEN patch.scheduledAt ELSE @,
        !.completedAt = IF nextStatus = "done" THEN ts ELSE NullTime,
        !.projectId = IF Has(patch, "projectId")
                      THEN (IF projectExists(P, patch.projectId)
                            THEN patch.projectId ELSE INBOX_PROJECT_ID)
                      ELSE @,
        !.order = nextOrder,
        !.recurrence = IF Has(patch, "recurrence") /\ patch.recurrence \in RECURRENCES
                       THEN patch.recurrence ELSE @,
        !.updatedAt = ts]

\* What follows the UPDATE of the row: normalizeTaskOrder when the status
\* changed, and the successor of a recurring task that became done.
AfterUpdate(d1, current, item, ts, nid) ==
  [db |-> IF SpawnsSuccessor(current, item)
          THEN createTask(d1, SuccessorInput(item), nid, ts) ELSE d1,
   result |-> "ok", spawned |-> SpawnsSuccessor(current, item)]

WriteUpdate(d, id, current, item, P, ts, nid) ==
  AfterUpdate([d EXCEPT !.tasks = IF current.status # item.status
                                  THEN normalizeTaskOrder([d.tasks EXCEPT ![id] = item])
                                  ELSE [d.tasks EXCEPT ![id] = item],
                        !.projects = P],
              current, item, ts, nid)

\* nid is the id createId gives the successor, when one is spawned.
updateTask(d, id, patch, ts, nid) ==
  IF id \notin DOMAIN d.tasks THEN [db |-> d, result |-> "null", spawned |-> FALSE]
  ELSE IF Has(patch, "projectId") /\ patch.projectId = NullId
  THEN [db |-> d, result |-> "null", spawned |-> FALSE]
  ELSE WriteUpdate(d, id, d.tasks[id],
                   PatchedTask(d.tasks, d.projects, d.tasks[id], patch, ts),
                   IF Has(patch, "projectId") /\ ~projectExists(d.projects, patch.projectId)
                   THEN ensureInboxProject(d.projects, ts) ELSE d.projects,
                   ts, nid)

(***************************************************************************)
(* reorderTasksInLane                                                      *)
(***************************************************************************)
\* One UPDATE tasks SET ... WHERE id = w.id; w.set holds the columns it sets.
ApplyWrite(T, w) ==
  [T EXCEPT ![w.id] = [f \in DOMAIN T[w.id] |->
                         IF f \in DOMAIN w.set THEN w.set[f] ELSE T[w.id][f]]]

RECURSIVE ApplyWrites(_, _)
ApplyWrites(T, ws) ==
  IF ws = <<>> THEN T ELSE ApplyWrites(ApplyWrite(T, Head(ws)), Tail(ws))

\* finalIds.forEach: the target lane, the listed ids first, then the rest
\* of the lane as SELECT ... ORDER BY returns it.
\* TargetWrites whose SELECT of the remaining rows has no status filter.
TargetWrites_AnyLane(T1, movedTaskId, toStatus, orderedIds, ts) ==
  LET rest == IF Len(orderedIds) > 0
              THEN DOMAIN T1 \ Range(orderedIds)
              ELSE DOMAIN T1 \ {movedTaskId}
      remaining == Sorted(rest, LAMBDA a, b : LaneBefore(T1, a, b))
      finalIds == orderedIds \o remaining
  IN [i \in 1..Len(finalIds) |->
        [id |-> finalIds[i],
         set |-> [status |-> toStatus, order |-> i - 1, updatedAt |-> ts]]]

TargetWrites(T1, movedTaskId, toStatus, orderedIds, ts) ==
  LET rest == IF Len(orderedIds) > 0
              THEN Lane(T1, toStatus) \ Range(orderedIds)
              ELSE Lane(T1, toStatus) \ {movedTaskId}
      remaining == Sorted(rest, LAMBDA a, b : LaneBefore(T1, a, b))
      finalIds == orderedIds \o remaining
  IN [i \in 1..Len(finalIds) |->
        [id |-> finalIds[i],
         set |-> [status |-> toStatus, order |-> i - 1, updatedAt |-> ts]]]

\* SourceWrites that leaves the source lane as it is.
SourceWrites_None(T2, fromStatus, toStatus) == <<>>

\* if (moved.status !== input.toStatus): renumber the lane the task left.
SourceWrites(T2, fromStatus, toStatus) ==
  LET sourceRows == IF fromStatus # toStatus THEN LaneRows(T2, fromStatus) ELSE <<>>
  IN [i \in 1..Len(sourceRows) |-> [id |-> sourceRows[i], set |-> [order |-> i - 1]]]

\* The statements the transaction body runs, in order.  Each SELECT reads the
\* rows as the statements before it left them.
ReorderWrites(T, movedTaskId, toStatus, orderedIds, ts) ==
  LET w1 == [id |-> movedTaskId, set |-> [status |-> toStatus, updatedAt |-> ts]]
      T1 == ApplyWrite(T, w1)
      wFinal == TargetWrites(T1, movedTaskId, toStatus, orderedIds, ts)
      T2 == ApplyWrites(T1, wFinal)
  IN <<w1>> \o wFinal \o SourceWrites(T2, T[movedTaskId].status, toStatus)

\* Rollback that keeps what the statements wrote.
Rollback_KeepsWrites(snapshot, partial) == partial

\* exec("ROLLBACK"): the rows are again the ones BEGIN saw.
Rollback(snapshot, partial) == snapshot

\* db.transaction(fn)(): BEGIN, the statements, COMMIT; the statement numbered
\* failAt throws (0: none does), and the catch block rolls back and rethrows.
Transaction(T, writes, failAt) ==
  IF failAt \in 1..Len(writes)
  THEN [tasks |-> Rollback(T, ApplyWrites(T, SubSeq(writes, 1, failAt - 1))),
        threw |-> TRUE]
  ELSE [tasks |-> ApplyWrites(T, writes), threw |-> FALSE]

\* const orderedIds = Array.from(new Set(input.orderedTaskIds.filter(Boolean)))
OrderedIds(orderedTaskIds) == Dedup(FilterBoolean(orderedTaskIds))

\* ReorderVerdict without the check of the listed tasks' lanes.
ReorderVerdict_NoLaneCheck(T, movedTaskId, toStatus, orderedTaskIds) ==
  LET orderedIds == OrderedIds(orderedTaskIds)
      rows == {id \in Range(orderedIds) : id \in DOMAIN T}
  IN IF movedTaskId \notin DOMAIN T THEN "no-moved-task"
     ELSE IF movedTaskId \notin Range(orderedIds) THEN "moved-not-listed"
     ELSE IF Cardinality(rows) # Len(orderedIds) THEN "unknown-id"
     ELSE "ok"

\* Which early return rejects the request, or "ok".
ReorderVerdict(T, movedTaskId, toStatus, orderedTaskIds) ==
  LET orderedIds == OrderedIds(orderedTaskIds)
      rows == {id \in Range(orderedIds) : id \in DOMAIN T}
  IN IF movedTaskId \notin DOMAIN T THEN "no-moved-task"
     ELSE IF movedTaskId \notin Range(orderedIds) THEN "moved-not-listed"
     ELSE IF Cardinality(rows) # Len(orderedIds) THEN "unknown-id"
     ELSE IF \E id \in rows : id # movedTaskId /\ T[id].status # toStatus
          THEN "foreign-lane"
     ELSE "ok"

reorderTasksInLane(d, movedTaskId, toStatus, orderedTaskIds, ts, failAt) ==
  LET verdict == ReorderVerdict(d.tasks, movedTaskId, toStatus, orderedTaskIds)
  IN IF verdict # "ok" THEN [db |-> d, result |-> "null", why |-> verdict]
     ELSE LET writes == ReorderWrites(d.tasks, movedTaskId, toStatus,
                                      OrderedIds(orderedTaskIds), ts)
              tx == Transaction(d.tasks, writes, failAt)
          IN [db |-> [d EXCEPT !.tasks = tx.tasks],
              result |-> IF tx.threw THEN "throw" ELSE "ok",
              why |-> IF d.tasks[movedTaskId].status = toStatus
                      THEN "same-lane" ELSE "cross-lane"]

(***************************************************************************)
(* deleteTask, deleteProject, createProject, updateProject                 *)
(***************************************************************************)
Without(f, x) == [y \in DOMAIN f \ {x} |-> f[y]]

\* DELETE FROM content_entries WHERE parent_type = 'task' AND parent_id = id
DropEntriesOf(E, id) ==
  [e \in {x \in DOMAIN E : ~(E[x].parentType = "task" /\ E[x].parentId = id)} |-> E[e]]

deleteTask(d, id) ==
  IF id \notin DOMAIN d.tasks THEN [db |-> d, result |-> FALSE]
  ELSE [db |-> [d EXCEPT !.entries = DropEntriesOf(d.entries, id),
                        !.tasks = RepairLane(Without(d.tasks, id), d.tasks[id].status)],
        result |-> TRUE]

\* ReassignTasks that leaves the tasks of the deleted project as they are.
ReassignTasks_None(T, id) == T

\* UPDATE tasks SET project_id = inbox WHERE project_id = id
ReassignTasks(T, id) ==
  [t \in DOMAIN T |->
     IF T[t].projectId = id THEN [T[t] EXCEPT !.projectId = INBOX_PROJECT_ID] ELSE T[t]]

\* UPDATE content_entries SET parent_id = inbox
\*   WHERE parent_type = 'project' AND parent_id = id
ReassignEntries(E, id) ==
  [e \in DOMAIN E |->
     IF E[e].parentType = "project" /\ E[e].parentId = id
     THEN [E[e] EXCEPT !.parentId = INBOX_PROJECT_ID] ELSE E[e]]

\* deleteProject without the guard on the Inbox id.
deleteProject_NoInboxGuard(d, id, ts) ==
  IF id \notin DOMAIN d.projects THEN [db |-> d, result |-> FALSE]
  ELSE [db |-> [d EXCEPT !.tasks = ReassignTasks(d.tasks, id),
                        !.entries = ReassignEntries(d.entries, id),
                        !.projects = Without(d.projects, id)],
        result |-> TRUE]

deleteProject(d, id, ts) ==
  IF id = INBOX_PROJECT_ID THEN [db |-> d, result |-> FALSE]
  ELSE IF id \notin DOMAIN d.projects THEN [db |-> d, result |-> FALSE]
  ELSE [db |-> [d EXCEPT !.tasks = ReassignTasks(d.tasks, id),
                        !.entries = ReassignEntries(d.entries, id),
                        !.projects = Without(ensureInboxProject(d.projects, ts), id)],
        result |-> TRUE]

createProject(d, input, id, ts) ==
  LET des0 == IF Has(input, "description") /\ input.description # NullText
              THEN Trim(input.description) ELSE <<>>
      item == [title |-> Trim(input.title),
               description |-> IF des0 = <<>> THEN NullText ELSE des0,
               status |-> IF Has(input, "status") THEN input.status ELSE "planned",
               dueDate |-> IF Has(input, "dueDate") THEN input.dueDate ELSE NullDate,
               completionPercent |->
                 IF Has(input, "status") /\ input.status = "done" THEN 100 ELSE 0,
               source |-> IF Has(input, "source") THEN input.source ELSE "mission_control",
               createdAt |-> ts, updatedAt |-> ts]
  IN [d EXCEPT !.projects = (id :> item) @@ d.projects]

updateProject(d, id, patch, ts) ==
  IF id \notin DOMAIN d.projects THEN [db |-> d, result |-> "null"]
  ELSE [db |-> [d EXCEPT !.projects[id] =
                  [@ EXCEPT !.title = IF Has(patch, "title") THEN Trim(patch.title) ELSE @,
                            !.description =
                              IF Has(patch, "description") THEN patch.description ELSE @,
                            !.status = IF Has(patch, "status") THEN patch.status ELSE @,
                            !.dueDate = IF Has(patch, "dueDate") THEN patch.dueDate ELSE @,
                            !.completionPercent =
                              IF Has(patch, "completionPercent")
                              THEN (IF patch.completionPercent < 0 THEN 0
                                    ELSE IF patch.completionPercent > 100 THEN 100
                                    ELSE patch.completionPercent)
                              ELSE @,
                            !.updatedAt = ts]],
        result |-> "ok"]

(***************************************************************************)
(* createContentEntry (text entries, the kind the import makes) and        *)
(* bumpImportStatus                                                        *)
(***************************************************************************)
createContentEntry(d, input, id, ts) ==
  IF input.parentType = "project" /\ ~projectExists(d.projects, input.parentId)
  THEN [db |-> d, result |-> "null"]
  ELSE IF input.parentType = "task" /\ input.parentId \notin DOMAIN d.tasks
  THEN [db |-> d, result |-> "null"]
  ELSE LET item == [parentType |-> input.parentType, parentId |-> input.parentId,
                    entryType |-> input.entryType, textContent |-> input.textContent,
                    createdAt |-> ts, updatedAt |-> ts]
       IN [db |-> [d EXCEPT !.entries = (id :> item) @@ d.entries], result |-> "ok"]

\* bumpImportStatus that stores the count of this import over the old one.
bumpImportStatus_Overwrite(d, source, count, ts) ==
  [d EXCEPT !.imports =
     (source :> [importedCount |-> count, lastImportedAt |-> ts]) @@ d.imports]

bumpImportStatus(d, source, count, ts) ==
  IF source \in DOMAIN d.imports
  THEN [d EXCEPT !.imports[source] =
          [importedCount |-> @.importedCount + count, lastImportedAt |-> ts]]
  ELSE [d EXCEPT !.imports =
          (source :> [importedCount |-> count, lastImportedAt |-> ts]) @@ d.imports]

(***************************************************************************)
(* The import engine: commitImport.  A CSV value is a sequence of          *)
(* characters; a project id or a task id inside a value is one element.    *)
(***************************************************************************)
typeToSource(type) ==
  IF type = "apple_reminders" THEN "apple_reminders"
  ELSE IF type = "apple_notes" THEN "apple_notes"
  ELSE IF type = "chatgpt_projects" THEN "chatgpt"
  ELSE "claude"

UpperLetters ==
  <<"A", "B", "C", "D", "E", "F", "G", "H", "I", "J", "K", "L", "M",
    "N", "O", "P", "Q", "R", "S", "T", "U", "V", "W", "X", "Y", "Z">>

LowerLetters ==
  <<"a", "b", "c", "d", "e", "f", "g", "h", "i", "j", "k", "l", "m",
    "n", "o", "p", "q", "r", "s", "t", "u", "v", "w", "x", "y", "z">>

\* toLowerCase on the letters A to Z.
LowerCase ==
  [c \in Range(UpperLetters) |-> LowerLetters[IndexOf(UpperLetters, c)]]

toLowerCase(s) ==
  [i \in 1..Len(s) |-> IF s[i] \in DOMAIN LowerCase THEN LowerCase[s[i]] ELSE s[i]]

\* replace(/\s+/g, "_"): every run of blanks becomes one underscore.
RECURSIVE ReplaceBlanks(_)
ReplaceBlanks(s) ==
  IF s = <<>> THEN <<>>
  ELSE IF Head(s) \notin WhiteSpace THEN <<Head(s)>> \o ReplaceBlanks(Tail(s))
  ELSE IF Len(s) > 1 /\ s[2] \in WhiteSpace THEN ReplaceBlanks(Tail(s))
  ELSE <<"_">> \o ReplaceBlanks(Tail(s))

\* The characters of the status names.
StatusText ==
  [s \in {"in_progress", "blocked", "parking_lot", "done", "active"} |->
     CASE s = "in_progress" -> <<"i", "n", "_", "p", "r", "o", "g", "r", "e", "s", "s">>
       [] s = "blocked" -> <<"b", "l", "o", "c", "k", "e", "d">>
       [] s = "parking_lot" -> <<"p", "a", "r", "k", "i", "n", "g", "_", "l", "o", "t">>
       [] s = "done" -> <<"d", "o", "n", "e">>
       [] s = "active" -> <<"a", "c", "t", "i", "v", "e">>]

normalizeTaskStatus(raw) ==
  LET value == ReplaceBlanks(toLowerCase(Trim(raw)))
      named == {s \in {"in_progress", "blocked", "parking_lot", "done"} :
                  StatusText[s] = value}
  IN IF named = {} THEN "todo" ELSE CHOOSE s \in named : TRUE

normalizeProjectStatus(raw) ==
  LET value == toLowerCase(Trim(raw))
      named == {s \in {"active", "blocked", "done"} : StatusText[s] = value}
  IN IF named = {} THEN "planned" ELSE CHOOSE s \in named : TRUE

\* row.duplicateMatch === null
NullMatch == [entityType |-> "<null>", id |-> EmptyId]

\* values[column], undefined (here the empty value) for a column the row lacks.
Value(values, column) == IF Has(values, column) THEN values[column] ELSE <<>>

\* x || null
OrNull(text) == IF text = <<>> THEN NullText ELSE text

\* The id a trimmed value spells: its one element, or a string no row has.
TextId(text) == IF Len(text) = 1 THEN text[1] ELSE "?"

\* The stored task whose id a trimmed value spells; EmptyId when none does.
TaskOfText(T, text) ==
  LET named == {t \in DOMAIN T : <<ToString(t)>> = text}
  IN IF named = {} THEN EmptyId ELSE CHOOSE t \in named : TRUE

\* values.due_date || null
DueDateOf(values) ==
  IF Has(values, "due_date") /\ values.due_date # EmptyDate THEN values.due_date
  ELSE NullDate

normalizeCommitRows(rows) ==
  [i \in 1..Len(rows) |->
     IF Has(rows[i], "values") THEN rows[i]
     ELSE [values |-> rows[i], action |-> "create", duplicateMatch |-> NullMatch]]

\* createId(): the next id of the pool the request draws its ids from;
\* `none` when the pool is used up.
NextId(pool, none) == IF pool = <<>> THEN none ELSE Head(pool)

Rest(pool) == IF pool = <<>> THEN pool ELSE Tail(pool)

\* The fields a reminder row gives createTask and updateTask.
ReminderFields(values, title) ==
  [title |-> title,
   details |-> OrNull(Value(values, "notes")),
   dueDate |-> DueDateOf(values),
   status |-> normalizeTaskStatus(Value(values, "status")),
   projectId |-> IF Trim(Value(values, "project_id")) = <<>> THEN INBOX_PROJECT_ID
                 ELSE TextId(Trim(Value(values, "project_id")))]

\* ReminderOutcome that counts a row as skipped when no task was updated.
ReminderOutcome_SkipsWhenGone(st, u, fields, nid, source, ts) ==
  IF u.result = "ok"
  THEN [st EXCEPT !.db = u.db,
                  !.taskPool = IF u.spawned THEN Rest(@) ELSE @,
                  !.ok = @ /\ (u.spawned => nid # EmptyId),
                  !.updatedTasks = @ + 1]
  ELSE [st EXCEPT !.skippedRows = @ + 1]

\* if (item) { updatedTasks += 1; continue; }  await createTask(...);
\* createdTasks += 1.  u is what updateTask did, if it was called.  st.ok
\* turns FALSE when the row needs more task ids than the pool holds.
ReminderOutcome(st, u, fields, nid, source, ts) ==
  IF u.result = "ok"
  THEN [st EXCEPT !.db = u.db,
                  !.taskPool = IF u.spawned THEN Rest(@) ELSE @,
                  !.ok = @ /\ (u.spawned => nid # EmptyId),
                  !.updatedTasks = @ + 1]
  ELSE [st EXCEPT !.db = IF nid = EmptyId THEN @
                         ELSE createTask(@, fields @@ [source |-> source], nid, ts),
                  !.taskPool = Rest(@),
                  !.ok = @ /\ nid # EmptyId,
                  !.createdTasks = @ + 1]

ReminderUpdate(st, row, fields, nid, source, ts) ==
  ReminderOutcome(st,
                  IF row.action = "update" /\ row.duplicateMatch.entityType = "task"
                  THEN updateTask(st.db, row.duplicateMatch.id, fields, ts, nid)
                  ELSE [db |-> st.db, result |-> "null", spawned |-> FALSE],
                  fields, nid, source, ts)

\* ReminderRow that leaves the source of a created task to createTask.
ReminderRow_DefaultSource(st, row, title, source, ts) ==
  ReminderUpdate(st, row, ReminderFields(row.values, title),
                 NextId(st.taskPool, EmptyId), "mission_control", ts)

\* One row of an apple_reminders import.
ReminderRow(st, row, title, source, ts) ==
  ReminderUpdate(st, row, ReminderFields(row.values, title),
                 NextId(st.taskPool, EmptyId), source, ts)

\* NoteInput that attaches every note to a project, whatever task_id says.
NoteInput_IgnoresTask(T, values, title) ==
  [parentType |-> "project",
   parentId |-> IF Trim(Value(values, "project_id")) # <<>>
                THEN TextId(Trim(Value(values, "project_id")))
                ELSE INBOX_PROJECT_ID,
   entryType |-> "text",
   textContent |-> IF Trim(Value(values, "content")) = <<>> THEN title
                   ELSE Trim(Value(values, "content"))]

\* The entry a note row asks for.
NoteInput(T, values, title) ==
  [parentType |-> IF Trim(Value(values, "task_id")) # <<>> THEN "task" ELSE "project",
   parentId |-> IF Trim(Value(values, "task_id")) # <<>>
                THEN TaskOfText(T, Trim(Value(values, "task_id")))
                ELSE IF Trim(Value(values, "project_id")) # <<>>
                THEN TextId(Trim(Value(values, "project_id")))
                ELSE INBOX_PROJECT_ID,
   entryType |-> "text",
   textContent |-> IF Trim(Value(values, "content")) = <<>> THEN title
                   ELSE Trim(Value(values, "content"))]

\* if (created) createdContentEntries += 1; else skippedRows += 1
NoteOutcome(st, c, eid) ==
  IF c.result = "ok"
  THEN [st EXCEPT !.db = IF eid = EmptyId THEN @ ELSE c.db,
                  !.entryPool = Rest(@),
                  !.ok = @ /\ eid # EmptyId,
                  !.createdContentEntries = @ + 1]
  ELSE [st EXCEPT !.skippedRows = @ + 1]

NoteCreate(st, input, eid, ts) ==
  NoteOutcome(st, createContentEntry(st.db, input, eid, ts), eid)

\* One row of an apple_notes import.
NoteRow(st, row, title, ts) ==
  NoteCreate(st, NoteInput(st.db.tasks, row.values, title),
             NextId(st.entryPool, EmptyId), ts)

\* The fields a project row gives createProject and updateProject.
ProjectFields(values, title) ==
  [title |-> title,
   description |-> OrNull(Value(values, "notes")),
   dueDate |-> DueDateOf(values),
   status |-> normalizeProjectStatus(Value(values, "status"))]

\* if (item) { updatedProjects += 1; continue; }  await createProject(...);
\* createdProjects += 1
ProjectOutcome(st, u, fields, pid, source, ts) ==
  IF u.result = "ok"
  THEN [st EXCEPT !.db = u.db, !.updatedProjects = @ + 1]
  ELSE [st EXCEPT !.db = IF pid = NullId THEN @
                         ELSE createProject(@, fields @@ [source |-> source], pid, ts),
                  !.projectPool = Rest(@),
                  !.ok = @ /\ pid # NullId,
                  !.createdProjects = @ + 1]

ProjectUpdate(st, row, fields, pid, source, ts) ==
  ProjectOutcome(st,
                 IF row.action = "update" /\ row.duplicateMatch.entityType = "project"
                 THEN updateProject(st.db, row.duplicateMatch.id, fields, ts)
                 ELSE [db |-> st.db, result |-> "null"],
                 fields, pid, source, ts)

\* One row of a chatgpt_projects or claude_projects import.
ProjectRow(st, row, title, source, ts) ==
  ProjectUpdate(st, row, ProjectFields(row.values, title),
                NextId(st.projectPool, NullId), source, ts)

\* The loop body that skips a row by its action only, never by its title.
CommitRow_SkipByActionOnly(st, type, row, title, ts) ==
  IF row.action = "skip"
  THEN [st EXCEPT !.skippedRows = @ + 1]
  ELSE IF type = "apple_reminders"
  THEN ReminderRow(st, row, title, typeToSource(type), ts)
  ELSE IF type = "apple_notes" THEN NoteRow(st, row, title, ts)
  ELSE ProjectRow(st, row, title, typeToSource(type), ts)

\* The body of the loop over the rows.
CommitRow(st, type, row, title, ts) ==
  IF title = <<>> \/ row.action = "skip"
  THEN [st EXCEPT !.skippedRows = @ + 1]
  ELSE IF type = "apple_reminders"
  THEN ReminderRow(st, row, title, typeToSource(type), ts)
  ELSE IF type = "apple_notes" THEN NoteRow(st, row, title, ts)
  ELSE ProjectRow(st, row, title, typeToSource(type), ts)

\* for (const row of rows) { ... }, cut short when an id pool is used up.
RECURSIVE CommitRows(_, _, _, _)
CommitRows(st, type, rows, ts) ==
  IF rows = <<>> \/ ~st.ok THEN st
  ELSE CommitRows(CommitRow(st, type, Head(rows),
                            Trim(Value(Head(rows).values, "title")), ts),
                  type, Tail(rows), ts)

Changed(st) ==
  st.createdProjects + st.createdTasks + st.createdContentEntries
    + st.updatedProjects + st.updatedTasks + st.updatedContentEntries

\* if (changed > 0) await bumpImportStatus(source, changed); return {...}
CommitResult(st, source, ts) ==
  [db |-> IF Changed(st) > 0 THEN bumpImportStatus(st.db, source, Changed(st), ts)
          ELSE st.db,
   ok |-> st.ok,
   changed |-> Changed(st),
   response |-> [createdProjects |-> st.createdProjects,
                 updatedProjects |-> st.updatedProjects,
                 createdTasks |-> st.createdTasks,
                 updatedTasks |-> st.updatedTasks,
                 createdContentEntries |-> st.createdContentEntries,
                 updatedContentEntries |-> st.updatedContentEntries,
                 skippedRows |-> st.skippedRows]]

\* The counters at zero, the Inbox ensured.
CommitStart(d, ts, taskPool, projectPool, entryPool) ==
  [db |-> [d EXCEPT !.projects = ensureInboxProject(@, ts)],
   taskPool |-> taskPool, projectPool |-> projectPool,
   entryPool |-> entryPool, ok |-> TRUE,
   createdProjects |-> 0, updatedProjects |-> 0,
   createdTasks |-> 0, updatedTasks |-> 0,
   createdContentEntries |-> 0, updatedContentEntries |-> 0,
   skippedRows |-> 0]

\* commitImport(payload): the store it leaves, the response, and whether the
\* id pools sufficed.
commitImport(d, payload, ts, taskPool, projectPool, entryPool) ==
  CommitResult(CommitRows(CommitStart(d, ts, taskPool, projectPool, entryPool),
                          payload.type, normalizeCommitRows(payload.rows), ts),
               typeToSource(payload.type), ts)

(***************************************************************************)
(* The store as a state machine.  A request runs to completion in one      *)
(* action, which leaves in `last` the call, the store it found and what it *)
(* returned; Respond hands the response over, and only then is the next    *)
(* request served (one writer at a time).  ts is what the request reads    *)
(* from the clock.                                                         *)
(***************************************************************************)
\* new Date(): the clock never runs backwards; two reads may see the same ms.
Ticks == {t \in {now, now + 1} : t <= MaxClock}

\* createId(): an id no stored task has.
FreshTaskIds(d) == TaskIds \ DOMAIN d.tasks

FreshProjectIds(d) == ProjectIds \ DOMAIN d.projects

FreshEntryIds(d) == EntryIds \ DOMAIN d.entries

\* The orders in which a request can be handed the ids of S.
Pools(S) ==
  {pool \in [1..Cardinality(S) -> S] :
     \A i, j \in 1..Cardinality(S) : i # j => pool[i] # pool[j]}

Idle == [op |-> "idle", args |-> <<>>, pre |-> <<>>, res |-> <<>>]

Call(op, args, res) == [op |-> op, args |-> args, pre |-> db, res |-> res]

CreateTask(input, ts) ==
  /\ last = Idle
  /\ \E id \in FreshTaskIds(db) :
       /\ db' = createTask(db, input, id, ts)
       /\ now' = ts
       /\ last' = Call("createTask", [input |-> input, ts |-> ts], [id |-> id])

UpdateTask(id, patch, ts) ==
  /\ last = Idle
  /\ \E nid \in FreshTaskIds(db) \cup {EmptyId} :
       LET r == updateTask(db, id, patch, ts, nid)
       IN /\ r.spawned <=> nid # EmptyId
          /\ db' = r.db
          /\ now' = IF r.result = "ok" THEN ts ELSE now
          /\ last' = Call("updateTask", [id |-> id, patch |-> patch, ts |-> ts],
                          [result |-> r.result, spawned |-> r.spawned, nid |-> nid])

\* faulty: whether a statement of the transaction may fail in this request.
ReorderTasksInLane(movedTaskId, toStatus, orderedTaskIds, ts, faulty) ==
  LET args == [movedTaskId |-> movedTaskId, toStatus |-> toStatus,
               orderedTaskIds |-> orderedTaskIds, ts |-> ts]
      fails == IF \/ ~faulty
                     \/ ReorderVerdict(db.tasks, movedTaskId, toStatus, orderedTaskIds) # "ok"
               THEN {0}
               ELSE 0..Len(ReorderWrites(db.tasks, movedTaskId, toStatus,
                                         OrderedIds(orderedTaskIds), ts))
  IN /\ last = Idle
     /\ \E failAt \in fails :
          LET r == reorderTasksInLane(db, movedTaskId, toStatus, orderedTaskIds, ts, failAt)
          IN /\ db' = r.db
             /\ now' = IF r.result = "null" THEN now ELSE ts
             /\ last' = Call("reorderTasksInLane", args,
                             [result |-> r.result, why |-> r.why, failAt |-> failAt])

CreateProject(input, ts) ==
  /\ last = Idle
  /\ \E id \in FreshProjectIds(db) :
       /\ db' = createProject(db, input, id, ts)
       /\ now' = ts
       /\ last' = Call("createProject", [input |-> input, ts |-> ts], [id |-> id])

DeleteProject(id, ts) ==
  LET r == deleteProject(db, id, ts)
  IN /\ last = Idle
     /\ db' = r.db
     /\ now' = now
     /\ last' = Call("deleteProject", [id |-> id, ts |-> ts], [result |-> r.result])

\* What CommitImport does with the outcome r of commitImport: the response is
\* returned as long as the ids sufficed and the import counter stays within
\* cap.
Committed(r, payload, ts, cap) ==
  /\ r.ok
  /\ typeToSource(payload.type) \in DOMAIN r.db.imports
       => r.db.imports[typeToSource(payload.type)].importedCount <= cap
  /\ db' = r.db
  /\ now' = ts
  /\ last' = Call("commitImport", [payload |-> payload, ts |-> ts],
                  [response |-> r.response, changed |-> r.changed])

CommitImport(payload, ts, cap) ==
  /\ last = Idle
  /\ \E taskPool \in Pools(FreshTaskIds(db)),
        projectPool \in Pools(FreshProjectIds(db)),
        entryPool \in Pools(FreshEntryIds(db)) :
       Committed(commitImport(db, payload, ts, taskPool, projectPool, entryPool),
                 payload, ts, cap)

DeleteTask(id) ==
  LET r == deleteTask(db, id)
  IN /\ last = Idle
     /\ db' = r.db
     /\ now' = now
     /\ last' = Call("deleteTask", [id |-> id], [result |-> r.result])

Respond ==
  /\ last # Idle
  /\ last' = Idle
  /\ UNCHANGED <<db, now>>

\* initializeDatabase on a store whose legacy file holds no project, task,
\* note or import status: ensureInboxProject inserts the Inbox, the board is
\* empty.
Init ==
  /\ db = [tasks |-> <<>>, projects |-> (INBOX_PROJECT_ID :> InboxProject(0)),
           entries |-> <<>>, imports |-> <<>>]
  /\ now = 0
  /\ last = Idle

(***************************************************************************)
(* Spec: the lane engine.  Requests differ in lane and position; every     *)
(* request reads the same clock value (SpecTies lets the clock run).       *)
(***************************************************************************)
LaneInputs == {"todo", "in_progress", "done"}

LaneTitle == <<"a">>

LaneCreateInputs == {[title |-> LaneTitle, status |-> s] : s \in LaneInputs}

LanePatches == {[status |-> s] : s \in LaneInputs}

NoRepeat(s) == \A i, j \in 1..Len(s) : i # j => s[i] # s[j]

\* orderedTaskIds as requests carry it: ids without repetition, or such a
\* list behind a blank entry, or one id twice.
ReorderLists ==
  {l \in SeqsUpTo(TaskIds, MaxTasks) : NoRepeat(l)}
    \cup {<<EmptyId>> \o l : l \in SeqsUpTo(TaskIds, 1)}
    \cup {<<x, x>> : x \in TaskIds}

Next ==
  \/ last = Idle /\ \E input \in LaneCreateInputs : CreateTask(input, now)
  \/ last = Idle /\ \E id \in TaskIds, patch \in LanePatches : UpdateTask(id, patch, now)
  \/ last = Idle /\ \E m \in TaskIds, s \in LaneInputs, ids \in ReorderLists :
                      ReorderTasksInLane(m, s, ids, now, TRUE)
  \/ last = Idle /\ \E id \in TaskIds : DeleteTask(id)
  \/ Respond

Spec == Init /\ [][Next]_vars

(***************************************************************************)
(* Properties of the lane engine.                                          *)
(***************************************************************************)
\* A lane's order values are exactly 0..n-1, each held once.
DenseLane(T, status) ==
  /\ \A a, b \in Lane(T, status) : a # b => T[a].order # T[b].order
  /\ {T[id].order : id \in Lane(T, status)} = 0..(Cardinality(Lane(T, status)) - 1)

Dense(T) == \A k \in 1..Len(TASK_STATUSES) : DenseLane(T, TASK_STATUSES[k])

IsReorder == last.op = "reorderTasksInLane"

\* C2: from a store whose lanes are all dense, a reorderTasksInLane call
\* (accepted, rejected or failed, within a lane or across lanes) or a
\* deleteTask call leaves every lane with the order values 0..n-1, each once.
C2_DenseAfterReorderOrDelete ==
  (last.op \in {"reorderTasksInLane", "deleteTask"} /\ Dense(last.pre.tasks))
    => Dense(db.tasks)

\* A cross-lane move of a task that was not the last of its lane: the source
\* lane had to be renumbered.
C2_Witness ==
  /\ IsReorder /\ last.res.result = "ok" /\ last.res.why = "cross-lane"
  /\ Dense(last.pre.tasks)
  /\ LET T == last.pre.tasks
         m == last.args.movedTaskId
     IN \E a \in Lane(T, T[m].status) : T[a].order > T[m].order

\* C4: after an accepted reorder that moves task t from lane A to another
\* lane B, t is in B at the order equal to its index in the de-duplicated
\* orderedTaskIds, and the tasks left in A hold 0..m-1 in the relative order
\* they had before the call.
C4_CrossLaneMove ==
  (IsReorder /\ last.res.result = "ok" /\ last.res.why = "cross-lane") =>
    LET T == last.pre.tasks
        m == last.args.movedTaskId
        A == T[m].status
        B == last.args.toStatus
        listed == OrderedIds(last.args.orderedTaskIds)
    IN /\ db.tasks[m].status = B
       /\ db.tasks[m].order = IndexOf(listed, m) - 1
       /\ Lane(db.tasks, A) = Lane(T, A) \ {m}
       /\ DenseLane(db.tasks, A)
       /\ \A a, b \in Lane(db.tasks, A) :
            T[a].order < T[b].order => db.tasks[a].order < db.tasks[b].order

\* The moved task lands behind a task of B, and a task of A moves up.
C4_Witness ==
  /\ IsReorder /\ last.res.result = "ok" /\ last.res.why = "cross-lane"
  /\ LET T == last.pre.tasks
         m == last.args.movedTaskId
     IN /\ db.tasks[m].order >= 1
        /\ \E a \in Lane(db.tasks, T[m].status) : db.tasks[a].order # T[a].order

\* The four grounds of rejection of C5; an id is a non-empty entry (blank
\* entries are dropped by the handler before it looks at the list).
C5_NoMovedTask(T, a) == a.movedTaskId \notin DOMAIN T

C5_MovedNotListed(T, a) == a.movedTaskId \notin Range(OrderedIds(a.orderedTaskIds))

C5_UnknownId(T, a) ==
  \E id \in Range(a.orderedTaskIds) : id # EmptyId /\ id \notin DOMAIN T

C5_ForeignLane(T, a) ==
  \E id \in Range(a.orderedTaskIds) :
    id \in DOMAIN T /\ id # a.movedTaskId /\ T[id].status # a.toStatus

C6_AtomicReorder ==
  (IsReorder /\ last.res.failAt > 0) =>
    /\ last.res.result = "throw"
    /\ db = last.pre

\* The failure came after writes that had changed the rows.
C6_Witness ==
  /\ IsReorder /\ last.res.result = "throw"
  /\ LET a == last.args
         writes == ReorderWrites(last.pre.tasks, a.movedTaskId, a.toStatus,
                                 OrderedIds(a.orderedTaskIds), a.ts)
     IN ApplyWrites(last.pre.tasks, SubSeq(writes, 1, last.res.failAt - 1))
          # last.pre.tasks

(***************************************************************************)
(* SpecTies: the clock runs and updateTask patches the order, so tasks of  *)
(* one lane come to hold the same order value at different times.          *)
(***************************************************************************)
TieLanes == {"todo", "done"}

TieCreateInputs == {[title |-> LaneTitle]}

TiePatches == {[order |-> 0]}

TieLists == {l \in SeqsUpTo(TaskIds, 2) : NoRepeat(l)}

NextTies ==
  \/ last = Idle /\ \E input \in TieCreateInputs, ts \in Ticks : CreateTask(input, ts)
  \/ last = Idle /\ \E id \in TaskIds, patch \in TiePatches, ts \in Ticks :
                      UpdateTask(id, patch, ts)
  \/ last = Idle /\ \E m \in TaskIds, s \in TieLanes, ids \in TieLists, ts \in Ticks :
                      ReorderTasksInLane(m, s, ids, ts, FALSE)
  \/ last = Idle /\ \E id \in TaskIds : DeleteTask(id)
  \/ Respond

SpecTies == Init /\ [][NextTies]_vars

\* C1: in every reachable state each lane's order values are pairwise
\* distinct and are exactly 0..n-1.
C1_LanesAlwaysDense == Dense(db.tasks)

\* The order the claim gives the rest of the lane: order ascending, then
\* updated time descending, then id ascending, all as before the call.
C3_Before(T, a, b) ==
  \/ T[a].order < T[b].order
  \/ T[a].order = T[b].order /\ T[a].updatedAt > T[b].updatedAt
  \/ T[a].order = T[b].order /\ T[a].updatedAt = T[b].updatedAt /\ a < b

\* C3: after an accepted reorder the tasks of toStatus, by ascending order,
\* are the de-duplicated orderedTaskIds followed by the other members of
\* toStatus in their pre-call (order, updated time descending, id) sequence,
\* and they hold 0..n-1 in that sequence.
C3_TargetLaneSequence ==
  (IsReorder /\ last.res.result = "ok") =>
    LET T == last.pre.tasks
        listed == OrderedIds(last.args.orderedTaskIds)
        others == Lane(T, last.args.toStatus) \ Range(listed)
        expected == listed \o Sorted(others, LAMBDA a, b : C3_Before(T, a, b))
    IN /\ Lane(db.tasks, last.args.toStatus) = Range(expected)
       /\ \A i \in 1..Len(expected) : db.tasks[expected[i]].order = i - 1

\* Two unlisted tasks of the lane held the same order, the one updated later
\* having the larger id: only the updated time puts it first.
C3_Witness ==
  /\ IsReorder /\ last.res.result = "ok"
  /\ LET T == last.pre.tasks
         others == Lane(T, last.args.toStatus)
                     \ Range(OrderedIds(last.args.orderedTaskIds))
     IN \E a, b \in others :
          /\ a < b /\ T[a].order = T[b].order /\ T[a].updatedAt < T[b].updatedAt
          /\ db.tasks[b].order < db.tasks[a].order

(***************************************************************************)
(* SpecRecur: recurring tasks.  Tasks are created and patched with         *)
(* recurrences, details and dates, completed and re-opened through         *)
(* updateTask, and dragged between todo and done through                   *)
(* reorderTasksInLane.                                                     *)
(***************************************************************************)
RecurLanes == {"done"}

\* createTask is called while the board holds fewer tasks than this; the
\* tasks beyond it are successors.
MaxRecurCreated == 2

RecurCreateInputs ==
  {[title |-> LaneTitle, dueDate |-> EmptyDate],
   [title |-> LaneTitle, recurrence |-> "daily", dueDate |-> DateOnly(1),
    scheduledAt |-> InvalidDate, details |-> <<" ", "x">>,
    priority |-> "high", source |-> "apple_reminders"]}

RecurPatches ==
  {[status |-> "done"], [status |-> "todo"],
   [status |-> "done", recurrence |-> "weekly", details |-> <<"x", " ">>]}

NextRecur ==
  \/ /\ last = Idle
     /\ Cardinality(DOMAIN db.tasks) < MaxRecurCreated
     /\ \E input \in RecurCreateInputs : CreateTask(input, now)
  \/ last = Idle /\ \E id \in TaskIds, patch \in RecurPatches : UpdateTask(id, patch, now)
  \/ last = Idle /\ \E m \in TaskIds, s \in RecurLanes : ReorderTasksInLane(m, s, <<m>>, now, FALSE)
  \/ Respond

SpecRecur == Init /\ [][NextRecur]_vars

\* The tasks the call inserted.
Inserted == DOMAIN db.tasks \ DOMAIN last.pre.tasks

Recurring(t) == t.recurrence \in {"daily", "weekly"}

\* C7: an accepted reorderTasksInLane that moves a daily or weekly task from
\* a lane other than done into done creates exactly one successor, in todo.
C7_ReorderSpawns ==
  (/\ IsReorder /\ last.res.result = "ok" /\ last.args.toStatus = "done"
   /\ last.pre.tasks[last.args.movedTaskId].status # "done"
   /\ Recurring(last.pre.tasks[last.args.movedTaskId])) =>
    /\ Cardinality(Inserted) = 1
    /\ \A n \in Inserted : db.tasks[n].status = "todo"

IsUpdate == last.op = "updateTask"

\* C8: an updateTask call inserts one successor when the status it found was
\* not done, the status it leaves is done and the recurrence it leaves is
\* daily or weekly; every other updateTask call inserts nothing, a call on a
\* task that is already done included.
C8_SpawnOnCrossingOnly ==
  IsUpdate =>
    IF last.res.result = "ok"
    THEN LET before == last.pre.tasks[last.args.id]
             after == db.tasks[last.args.id]
         IN Cardinality(Inserted) =
              (IF before.status # "done" /\ after.status = "done" /\ Recurring(after)
               THEN 1 ELSE 0)
    ELSE Inserted = {}

\* A recurring task that is done is patched to done again.
C8_Witness ==
  /\ IsUpdate /\ last.res.result = "ok"
  /\ Has(last.args.patch, "status") /\ last.args.patch.status = "done"
  /\ last.pre.tasks[last.args.id].status = "done"
  /\ Recurring(db.tasks[last.args.id])
  /\ \E t \in DOMAIN last.pre.tasks : t # last.args.id

Spawned == IsUpdate /\ last.res.result = "ok" /\ Inserted # {}

\* The date k days after d, as an instant; a null date stays null.
C9_Plus(d, k) ==
  IF d.kind = "null" THEN {d}
  ELSE IF d.kind = "valid" THEN {DateOnly(d.day + k), IsoDate(d.day + k)}
  ELSE {}

C9_Days(t) == IF t.recurrence = "daily" THEN 1 ELSE 7

\* What the successor shares with the completed task in either reading.
C9_Common(o, s) ==
  /\ s.title = o.title
  /\ s.priority = o.priority
  /\ s.projectId = o.projectId
  /\ s.source = o.source
  /\ s.recurrence = o.recurrence
  /\ s.status = "todo"

\* The successor is the last of the todo lane, its order the number of todo
\* tasks there were before it.
C9_LastOfTodo(n) ==
  /\ db.tasks[n].order = Cardinality(Lane(db.tasks, "todo") \ {n})
  /\ \A t \in Lane(db.tasks, "todo") \ {n} : db.tasks[t].order < db.tasks[n].order

\* The claim as stated: the details are the completed task's, and each date
\* is the completed task's plus 1 or 7 days, null staying null.
C9_SuccessorCopies ==
  Spawned =>
    \A n \in Inserted :
      LET o == db.tasks[last.args.id]
          s == db.tasks[n]
      IN /\ C9_Common(o, s)
         /\ s.details = o.details
         /\ C9_LastOfTodo(n)
         /\ s.dueDate \in C9_Plus(o.dueDate, C9_Days(o))
         /\ s.scheduledAt \in C9_Plus(o.scheduledAt, C9_Days(o))

\* Details as the successor gets them: trimmed, and null when nothing is left.
C9_Details(x) == IF x = NullText \/ Trim(x) = <<>> THEN NullText ELSE Trim(x)

\* Dates as the successor gets them: a null, empty or unparseable date as it
\* is, a date plus 1 or 7 days as an ISO timestamp.
C9_Date(d, k) == IF d.kind = "valid" THEN IsoDate(d.day + k) ELSE d

\* C9 (amended): the successor has the completed task's title, priority,
\* projectId, source and recurrence, its details trimmed (null when that
\* leaves nothing), status todo, the order equal to the number of todo tasks
\* before it, and each date of the completed task moved by 1 day (daily) or 7
\* days (weekly) when it parses, unchanged when it is null, empty or
\* unparseable.
C9_SuccessorAsCreated ==
  Spawned =>
    \A n \in Inserted :
      LET o == db.tasks[last.args.id]
          s == db.tasks[n]
      IN /\ C9_Common(o, s)
         /\ s.details = C9_Details(o.details)
         /\ C9_LastOfTodo(n)
         /\ s.dueDate = C9_Date(o.dueDate, C9_Days(o))
         /\ s.scheduledAt = C9_Date(o.scheduledAt, C9_Days(o))

\* A weekly task with a date that parses and details that end in a blank is
\* completed while another task is in todo.
C9_Witness ==
  /\ Spawned
  /\ LET o == db.tasks[last.args.id]
     IN /\ o.recurrence = "weekly"
        /\ o.details # NullText /\ Trim(o.details) # o.details
        /\ \/ o.dueDate.kind = "valid"
           \/ o.scheduledAt.kind = "valid"
        /\ \E n \in Inserted : db.tasks[n].order >= 1

(***************************************************************************)
(* SpecProj: task ownership.  Projects are created and deleted, tasks are  *)
(* created and re-assigned with project ids that exist, do not exist or    *)
(* are null, and imports create and update tasks, projects and notes.      *)
(***************************************************************************)
ProjCreateInputs ==
  {[title |-> LaneTitle],
   [title |-> LaneTitle, projectId |-> NullId],
   [title |-> LaneTitle, projectId |-> "p1"]}

ProjPatches == {[projectId |-> NullId], [projectId |-> "p2"], [projectId |-> "p9"]}

ProjProjectInputs == {[title |-> LaneTitle]}

\* One row per payload: a reminder created under " p1", a reminder that
\* updates task 1 and moves it to p2, a legacy reminder row without a
\* project, a note on project p2, a project.
ProjPayloads ==
  {[type |-> "apple_reminders",
    rows |-> <<[values |-> [title |-> LaneTitle, project_id |-> <<" ", "p1">>],
                action |-> "create", duplicateMatch |-> NullMatch]>>],
   [type |-> "apple_reminders",
    rows |-> <<[values |-> [title |-> LaneTitle, project_id |-> <<"p2">>],
                action |-> "update",
                duplicateMatch |-> [entityType |-> "task", id |-> 1]]>>],
   [type |-> "apple_reminders",
    rows |-> <<[title |-> LaneTitle]>>],
   [type |-> "apple_notes",
    rows |-> <<[values |-> [title |-> LaneTitle, project_id |-> <<"p2">>],
                action |-> "create", duplicateMatch |-> NullMatch]>>],
   [type |-> "chatgpt_projects",
    rows |-> <<[values |-> [title |-> LaneTitle],
                action |-> "create", duplicateMatch |-> NullMatch]>>]}

NextProj ==
  \/ last = Idle /\ \E input \in ProjCreateInputs : CreateTask(input, now)
  \/ last = Idle /\ \E id \in TaskIds, patch \in ProjPatches : UpdateTask(id, patch, now)
  \/ last = Idle /\ \E input \in ProjProjectInputs : CreateProject(input, now)
  \/ last = Idle /\ \E id \in ProjectIds \cup {INBOX_PROJECT_ID} : DeleteProject(id, now)
  \/ last = Idle /\ \E payload \in ProjPayloads : CommitImport(payload, now, MaxImported)
  \/ Respond

SpecProj == Init /\ [][NextProj]_vars

\* Every task's projectId is the id of a stored project.
Owned(d) == \A t \in DOMAIN d.tasks : d.tasks[t].projectId \in DOMAIN d.projects

\* C10: every task's projectId names a project that exists; createTask and
\* updateTask put a task whose given project id is missing, null (createTask)
\* or unknown into the Inbox, updateTask rejects a null projectId without
\* changing the store, and deleteProject(p) leaves the tasks of p in the
\* Inbox, the other tasks where they were, and p gone.
C10_TasksOwned ==
  /\ Owned(db)
  /\ last.op = "createTask" =>
       LET input == last.args.input
       IN (~Has(input, "projectId") \/ input.projectId \notin DOMAIN last.pre.projects)
            => db.tasks[last.res.id].projectId = INBOX_PROJECT_ID
  /\ (IsUpdate /\ Has(last.args.patch, "projectId")
        /\ last.args.id \in DOMAIN last.pre.tasks) =>
       LET projectId == last.args.patch.projectId
       IN /\ projectId = NullId => (last.res.result = "null" /\ db = last.pre)
          /\ (projectId # NullId /\ projectId \notin DOMAIN last.pre.projects)
               => db.tasks[last.args.id].projectId = INBOX_PROJECT_ID
  /\ (last.op = "deleteProject" /\ last.res.result) =>
       /\ last.args.id \notin DOMAIN db.projects
       /\ DOMAIN db.tasks = DOMAIN last.pre.tasks
       /\ \A t \in DOMAIN db.tasks :
            db.tasks[t].projectId =
              (IF last.pre.tasks[t].projectId = last.args.id
               THEN INBOX_PROJECT_ID ELSE last.pre.tasks[t].projectId)

\* A project that held a task, another task being elsewhere, is deleted.
C10_Witness ==
  /\ last.op = "deleteProject" /\ last.res.result
  /\ \E t, u \in DOMAIN last.pre.tasks :
       /\ last.pre.tasks[t].projectId = last.args.id
       /\ last.pre.tasks[u].projectId \notin {last.args.id, INBOX_PROJECT_ID}

\* C11: the Inbox project exists in every reachable state, and deleteProject
\* called with the Inbox id returns false and leaves the store as it was.
C11_InboxAlwaysExists ==
  /\ INBOX_PROJECT_ID \in DOMAIN db.projects
  /\ (last.op = "deleteProject" /\ last.args.id = INBOX_PROJECT_ID) =>
       /\ last.res.result = FALSE
       /\ db = last.pre

\* deleteProject is called with the Inbox id while the Inbox holds a task and
\* another project exists.
C11_Witness ==
  /\ last.op = "deleteProject" /\ last.args.id = INBOX_PROJECT_ID
  /\ \E t \in DOMAIN db.tasks : db.tasks[t].projectId = INBOX_PROJECT_ID
  /\ DOMAIN db.projects # {INBOX_PROJECT_ID}

(***************************************************************************)
(* SpecCommit: the rows of an import.  Imports of every type carry rows    *)
(* that create, update and skip, with matches that exist, were deleted or  *)
(* are of the other kind; tasks and projects are deleted between imports.  *)
(***************************************************************************)
\* The largest import counter a source reaches.
MaxChanged == 2

CommitRowOf(values, action, duplicateMatch) ==
  [values |-> values, action |-> action, duplicateMatch |-> duplicateMatch]

TaskMatch == [entityType |-> "task", id |-> 1]

ProjectMatch == [entityType |-> "project", id |-> "p1"]

CommitPayloads ==
  {[type |-> "apple_reminders",
    rows |-> <<CommitRowOf([title |-> <<" ", "a">>], "create", NullMatch),
               CommitRowOf([title |-> <<"a">>], "skip", NullMatch)>>],
   [type |-> "apple_reminders",
    rows |-> <<CommitRowOf([title |-> <<"b">>, notes |-> <<"n">>,
                            status |-> <<"D", "o", "n", "e">>], "update", TaskMatch)>>],
   [type |-> "apple_reminders",
    rows |-> <<CommitRowOf([title |-> <<" ">>], "create", NullMatch),
               CommitRowOf([title |-> <<"a">>], "update", TaskMatch)>>],
   [type |-> "apple_reminders",
    rows |-> <<[title |-> <<"a">>],
               CommitRowOf([title |-> <<"a">>], "update", ProjectMatch)>>],
   [type |-> "apple_notes",
    rows |-> <<CommitRowOf([title |-> <<"a">>, task_id |-> <<"1">>], "create", NullMatch),
               CommitRowOf([title |-> <<"a">>, project_id |-> <<"p1">>,
                            content |-> <<"c", " ">>], "update", ProjectMatch)>>],
   [type |-> "apple_notes",
    rows |-> <<CommitRowOf([title |-> <<"a">>, task_id |-> <<" ">>], "create", NullMatch),
               CommitRowOf([notes |-> <<"n">>], "create", NullMatch)>>],
   [type |-> "apple_notes",
    rows |-> <<CommitRowOf([title |-> <<"a">>], "skip", NullMatch),
               CommitRowOf([title |-> <<" ">>, task_id |-> <<"1">>], "create", NullMatch)>>],
   [type |-> "chatgpt_projects",
    rows |-> <<CommitRowOf([title |-> <<"a">>], "create", NullMatch),
               CommitRowOf([title |-> <<"b">>, status |-> <<"A", "c", "t", "i", "v", "e">>],
                           "update", ProjectMatch)>>],
   [type |-> "claude_projects",
    rows |-> <<CommitRowOf([title |-> <<"b">>, notes |-> <<"n">>], "update", ProjectMatch)>>],
   [type |-> "claude_projects",
    rows |-> <<CommitRowOf([title |-> <<"a">>], "update", TaskMatch),
               CommitRowOf([title |-> <<"a">>], "skip", ProjectMatch)>>]}

NextCommit ==
  \/ last = Idle /\ \E payload \in CommitPayloads : CommitImport(payload, now, MaxChanged)
  \/ last = Idle /\ \E id \in TaskIds : DeleteTask(id)
  \/ last = Idle /\ \E id \in ProjectIds : DeleteProject(id, now)
  \/ Respond

SpecCommit == Init /\ [][NextCommit]_vars

\* C12: deleting a task or a project deletes no row that references it:
\* every content entry stored before deleteTask or deleteProject is still
\* stored after it.
C12_DeleteKeepsEntries ==
  last.op \in {"deleteTask", "deleteProject"} =>
    DOMAIN last.pre.entries \subseteq DOMAIN db.entries

(***************************************************************************)
(* Properties of commitImport.                                             *)
(***************************************************************************)
IsCommit == last.op = "commitImport"

\* The title of a request row, trimmed; a row without `values` is its own
\* values.
RowTitle(row) ==
  Trim(Value(IF Has(row, "values") THEN row.values ELSE row, "title"))

RowAction(row) == IF Has(row, "values") THEN row.action ELSE "create"

\* The rows the claim says are skipped: blank title, or action skip.
SkipRows(rows) ==
  {i \in 1..Len(rows) : RowTitle(rows[i]) = <<>> \/ RowAction(rows[i]) = "skip"}

CounterSum(r) ==
  r.createdProjects + r.updatedProjects + r.createdTasks + r.updatedTasks
    + r.createdContentEntries + r.updatedContentEntries + r.skippedRows

\* The tasks the call inserted itself (a spawned successor recurs).
CreatedTasks == {t \in DOMAIN db.tasks \ DOMAIN last.pre.tasks : db.tasks[t].recurrence = "none"}

\* C13: the counters of a commitImport response sum to the number of rows;
\* a row with a blank trimmed title or with action skip is counted in
\* skippedRows and writes nothing (as many tasks, projects and entries are
\* new as the created counters say, and a request of such rows only leaves
\* the store as it was); in a reminders import and in a projects import the
\* skipped rows are exactly those, and every other row is counted as a
\* created or an updated task (project).
C13_CountersAccountForRows ==
  IsCommit =>
    LET rows == last.args.payload.rows
        type == last.args.payload.type
        r == last.res.response
        skips == Cardinality(SkipRows(rows))
    IN /\ CounterSum(r) = Len(rows)
       /\ r.skippedRows >= skips
       /\ type = "apple_reminders" =>
            /\ r.skippedRows = skips
            /\ r.createdTasks + r.updatedTasks = Len(rows) - skips
       /\ type \in {"chatgpt_projects", "claude_projects"} =>
            /\ r.skippedRows = skips
            /\ r.createdProjects + r.updatedProjects = Len(rows) - skips
       /\ Cardinality(CreatedTasks) = r.createdTasks
       /\ Cardinality(DOMAIN db.projects \ DOMAIN last.pre.projects) = r.createdProjects
       /\ Cardinality(DOMAIN db.entries \ DOMAIN last.pre.entries) = r.createdContentEntries
       /\ skips = Len(rows) => db = last.pre

\* An import of a row with a blank title and action create, and of a row
\* that updated a task.
C13_Witness ==
  /\ IsCommit
  /\ \E i \in SkipRows(last.args.payload.rows) :
       RowAction(last.args.payload.rows[i]) = "create"
  /\ last.res.response.skippedRows = 1
  /\ last.res.response.updatedTasks = 1

\* The kind of entity an import type produces ("none" for notes).
KindOf(type) ==
  IF type = "apple_reminders" THEN "task"
  ELSE IF type = "apple_notes" THEN "none" ELSE "project"

\* The rows of the request that are not skipped by title or action.
LiveRows(rows) == (1..Len(rows)) \ SkipRows(rows)

\* The one row of the request that is not skipped, when it is an update row
\* whose match is of the kind the import produces; 0 otherwise.
UpdateRow(payload) ==
  LET live == LiveRows(payload.rows)
  IN IF /\ Cardinality(live) = 1
        /\ \A i \in live : /\ RowAction(payload.rows[i]) = "update"
                           /\ KindOf(payload.type) # "none"
                           /\ payload.rows[i].duplicateMatch.entityType = KindOf(payload.type)
     THEN CHOOSE i \in live : TRUE
     ELSE 0

OnlyCounter(r, name, skips) ==
  [r EXCEPT ![name] = 0, !.skippedRows = 0]
    = [createdProjects |-> 0, updatedProjects |-> 0, createdTasks |-> 0,
       updatedTasks |-> 0, createdContentEntries |-> 0,
       updatedContentEntries |-> 0, skippedRows |-> 0]
  /\ r[name] = 1
  /\ r.skippedRows = skips

\* C14 for a reminders import whose update row names the task id.
C14_Task(row, id, r, skips) ==
  IF id \in DOMAIN last.pre.tasks
  THEN /\ OnlyCounter(r, "updatedTasks", skips)
       /\ CreatedTasks = {}
       /\ db.tasks[id].title = RowTitle(row)
       /\ db.tasks[id].details = OrNull(Value(row.values, "notes"))
       /\ db.tasks[id].status = normalizeTaskStatus(Value(row.values, "status"))
       /\ \A t \in DOMAIN last.pre.tasks \ {id} :
            [db.tasks[t] EXCEPT !.order = 0] = [last.pre.tasks[t] EXCEPT !.order = 0]
  ELSE /\ OnlyCounter(r, "createdTasks", skips)
       /\ Cardinality(DOMAIN db.tasks \ DOMAIN last.pre.tasks) = 1
       /\ \A t \in DOMAIN db.tasks \ DOMAIN last.pre.tasks :
            /\ db.tasks[t].title = RowTitle(row)
            /\ db.tasks[t].source = "apple_reminders"
       /\ \A t \in DOMAIN last.pre.tasks : db.tasks[t] = last.pre.tasks[t]

\* C14 for a projects import whose update row names the project id.
C14_Project(row, id, r, skips, source) ==
  IF id \in DOMAIN last.pre.projects
  THEN /\ OnlyCounter(r, "updatedProjects", skips)
       /\ DOMAIN db.projects = DOMAIN last.pre.projects
       /\ db.projects[id].title = RowTitle(row)
       /\ db.projects[id].description = OrNull(Value(row.values, "notes"))
       /\ db.projects[id].status = normalizeProjectStatus(Value(row.values, "status"))
       /\ \A q \in DOMAIN last.pre.projects \ {id} : db.projects[q] = last.pre.projects[q]
  ELSE /\ OnlyCounter(r, "createdProjects", skips)
       /\ Cardinality(DOMAIN db.projects \ DOMAIN last.pre.projects) = 1
       /\ \A q \in DOMAIN db.projects \ DOMAIN last.pre.projects :
            /\ db.projects[q].title = RowTitle(row)
            /\ db.projects[q].source = source
       /\ \A q \in DOMAIN last.pre.projects : db.projects[q] = last.pre.projects[q]

\* C14: in a reminders or projects import, a row with action update and a
\* match of the import's kind updates the matched entity and counts as
\* updated only, when the entity is stored; when it is not (it was deleted),
\* the row creates exactly one entity and counts as created only, never as
\* skipped.  Stated for requests whose other rows are skipped rows.
C14_UpdateOrCreate ==
  (IsCommit /\ UpdateRow(last.args.payload) # 0) =>
    LET payload == last.args.payload
        row == payload.rows[UpdateRow(payload)]
        skips == Cardinality(SkipRows(payload.rows))
    IN IF KindOf(payload.type) = "task"
       THEN C14_Task(row, row.duplicateMatch.id, last.res.response, skips)
       ELSE C14_Project(row, row.duplicateMatch.id, last.res.response, skips,
                        typeToSource(payload.type))

\* A reminder row asks to update a task that is no longer stored, other tasks
\* being stored.
C14_Witness ==
  /\ IsCommit /\ UpdateRow(last.args.payload) # 0
  /\ KindOf(last.args.payload.type) = "task"
  /\ last.args.payload.rows[UpdateRow(last.args.payload)].duplicateMatch.id
       \notin DOMAIN last.pre.tasks
  /\ last.pre.tasks # <<>>
  /\ last.res.response.createdTasks = 1

\* The parent the claim gives the note of a row: the task task_id names
\* when the field holds more than blanks, else the project project_id names,
\* else the Inbox.  A task id no stored task has is EmptyId.
NoteParent(values) ==
  IF Trim(Value(values, "task_id")) # <<>>
  THEN [parentType |-> "task",
        parentId |-> TaskOfText(last.pre.tasks, Trim(Value(values, "task_id")))]
  ELSE [parentType |-> "project",
        parentId |-> IF Trim(Value(values, "project_id")) # <<>>
                     THEN TextId(Trim(Value(values, "project_id")))
                     ELSE INBOX_PROJECT_ID]

ParentStored(parent) ==
  IF parent.parentType = "task" THEN parent.parentId \in DOMAIN last.pre.tasks
  ELSE parent.parentId \in DOMAIN last.pre.projects

\* The live rows of a notes request whose parent is stored.
NotedRows(rows) ==
  {i \in LiveRows(rows) : ParentStored(NoteParent(rows[i].values))}

NewEntries == DOMAIN db.entries \ DOMAIN last.pre.entries

BumpPayloads ==
  {payload \in CommitPayloads :
     \A i \in 1..Len(payload.rows) :
       /\ Has(payload.rows[i], "values")
       /\ payload.rows[i].duplicateMatch.entityType # "task"}

NextBump ==
  \/ last = Idle /\ \E payload \in BumpPayloads, ts \in Ticks :
                      CommitImport(payload, ts, MaxChanged)
  \/ Respond

SpecBump == Init /\ [][NextBump]_vars

\* The import counter of a source; 0 while the source has no row.
ImportedCount(I, source) == IF source \in DOMAIN I THEN I[source].importedCount ELSE 0

ChangedSum(r) ==
  r.createdProjects + r.updatedProjects + r.createdTasks + r.updatedTasks
    + r.createdContentEntries + r.updatedContentEntries

\* C17: commitImport adds to the counter of the import's source the sum of
\* the created and updated counters of its response, and stamps the row with
\* the time of the call, when the sum is not 0; it leaves the counter and
\* its timestamp as they were when the sum is 0; the rows of the other
\* sources are never changed.
C17_CounterGrowsByChanged ==
  IsCommit =>
    LET source == typeToSource(last.args.payload.type)
        n == ChangedSum(last.res.response)
    IN /\ n > 0 =>
            /\ source \in DOMAIN db.imports
            /\ db.imports[source].importedCount
                 = ImportedCount(last.pre.imports, source) + n
            /\ db.imports[source].lastImportedAt = last.args.ts
       /\ n = 0 => db.imports = last.pre.imports
       /\ DOMAIN db.imports \ {source} = DOMAIN last.pre.imports \ {source}
       /\ \A s \in DOMAIN db.imports \ {source} : db.imports[s] = last.pre.imports[s]

\* A later import adds to a counter an earlier import left, another source
\* having its own row.
C17_Witness ==
  /\ IsCommit
  /\ ChangedSum(last.res.response) = 1
  /\ ImportedCount(last.pre.imports, typeToSource(last.args.payload.type)) = 1
  /\ last.pre.imports[typeToSource(last.args.payload.type)].lastImportedAt < last.args.ts
  /\ Cardinality(DOMAIN db.imports) > 1

(***************************************************************************)
(* The import engine: previewImport.  The text is a sequence of            *)
(* characters.                                                             *)
(***************************************************************************)
\* String.prototype.split(sep) for a one-character separator.
RECURSIVE Split(_, _)
Split(s, sep) ==
  IF sep \notin Range(s) THEN <<s>>
  ELSE LET i == CHOOSE k \in 1..Len(s) : s[k] = sep /\ \A j \in 1..(k - 1) : s[j] # sep
       IN <<SubSeq(s, 1, i - 1)>> \o Split(SubSeq(s, i + 1, Len(s)), sep)

\* text.split(/\r?\n/): a carriage return right before a line feed belongs
\* to the separator.
SplitLines(text) ==
  LET pieces == Split(text, "\n")
  IN [i \in 1..Len(pieces) |->
        IF i < Len(pieces) /\ pieces[i] # <<>> /\ pieces[i][Len(pieces[i])] = "\r"
        THEN SubSeq(pieces[i], 1, Len(pieces[i]) - 1)
        ELSE pieces[i]]

\* .map((item) => item.trim())
TrimAll(items) == [i \in 1..Len(items) |-> Trim(items[i])]

\* line.split(",").map((item) => item.trim())
Cells(line) == TrimAll(Split(line, ","))

NonBlankLines(text) == SelectSeq(TrimAll(SplitLines(text)), LAMBDA line : line # <<>>)

CsvOf(lines) ==
  IF lines = <<>> THEN [headers |-> <<>>, rows |-> <<>>]
  ELSE [headers |-> Cells(lines[1]),
        rows |-> [i \in 1..(Len(lines) - 1) |-> Cells(lines[i + 1])]]

parseCsv(text) == CsvOf(NonBlankLines(text))

\* The characters of the column names the engine reads.
FieldText ==
  [f \in {"title", "notes", "status", "project_id", "task_id", "content"} |->
     CASE f = "title" -> <<"t", "i", "t", "l", "e">>
       [] f = "notes" -> <<"n", "o", "t", "e", "s">>
       [] f = "status" -> <<"s", "t", "a", "t", "u", "s">>
       [] f = "project_id" -> <<"p", "r", "o", "j", "e", "c", "t", "_", "i", "d">>
       [] f = "task_id" -> <<"t", "a", "s", "k", "_", "i", "d">>
       [] f = "content" -> <<"c", "o", "n", "t", "e", "n", "t">>]

\* The key of `values` a header cell is: the column name it spells, or the
\* cell itself.
HeaderKey(header) ==
  IF \E f \in DOMAIN FieldText : FieldText[f] = header
  THEN CHOOSE f \in DOMAIN FieldText : FieldText[f] = header
  ELSE ToString(header)

\* headers.forEach((header, headerIndex) => { values[header] =
\* row[headerIndex] ?? "" }): a later column of the same name wins.
RowValues(headers, row) ==
  [key \in {HeaderKey(headers[i]) : i \in 1..Len(headers)} |->
     LET i == Max({j \in 1..Len(headers) : HeaderKey(headers[j]) = key})
     IN IF i <= Len(row) THEN row[i] ELSE <<>>]

Digits == {"0", "1", "2", "3", "4", "5", "6", "7", "8", "9"}

\* replace(/[^a-z0-9\s]/g, " ")
BlankOthers(s) ==
  [i \in 1..Len(s) |->
     IF s[i] \in Range(LowerLetters) \cup Digits \cup WhiteSpace THEN s[i] ELSE " "]

\* replace(/\s+/g, " ")
RECURSIVE CollapseBlanks(_)
CollapseBlanks(s) ==
  IF s = <<>> THEN <<>>
  ELSE IF Head(s) \notin WhiteSpace THEN <<Head(s)>> \o CollapseBlanks(Tail(s))
  ELSE IF Len(s) > 1 /\ s[2] \in WhiteSpace THEN CollapseBlanks(Tail(s))
  ELSE <<" ">> \o CollapseBlanks(Tail(s))

normalize(value) == Trim(CollapseBlanks(BlankOthers(toLowerCase(value))))

Padded(text) == <<" ">> \o text \o <<" ">>

BigramsOf(text) == {<<text[i], text[i + 1]>> : i \in 1..(Len(text) - 1)}

bigrams(value) == BigramsOf(Padded(normalize(value)))

\* Dice that divides the overlap by the size of the first set alone.
Dice_OverFirst(A, B) ==
  IF A = {} \/ B = {} THEN [num |-> 0, den |-> 1]
  ELSE [num |-> Cardinality(A \cap B), den |-> Cardinality(A)]

\* (2 * overlap) / (A.size + B.size), as the fraction num/den; 0 is 0/1.
Dice(A, B) ==
  IF A = {} \/ B = {} THEN [num |-> 0, den |-> 1]
  ELSE [num |-> 2 * Cardinality(A \cap B), den |-> Cardinality(A) + Cardinality(B)]

diceSimilarity(a, b) == Dice(bigrams(a), bigrams(b))

\* x > y on fractions.
Greater(x, y) == x.num * y.den > y.num * x.den

\* AtLeastThreshold as score > 0.72.
AtLeastThreshold_Strict(x) == 100 * x.num > 72 * x.den

\* score >= 0.72
AtLeastThreshold(x) == 100 * x.num >= 72 * x.den

\* Number(score.toFixed(2)), in hundredths.
ToFixed2(x) == (200 * x.num + x.den) \div (2 * x.den)

\* requiredHeadersByType that knows the reminders import only.
requiredHeadersByType_RemindersOnly(type) ==
  IF type = "apple_reminders" THEN <<FieldText["title"]>> ELSE <<>>

requiredHeadersByType(type) ==
  IF type \in {"apple_reminders", "apple_notes", "chatgpt_projects", "claude_projects"}
  THEN <<FieldText["title"]>> ELSE <<>>

\* "null" when the type produces neither tasks nor projects.
typeToEntity(type) ==
  IF type = "apple_reminders" THEN "task"
  ELSE IF type \in {"chatgpt_projects", "claude_projects"} THEN "project"
  ELSE "null"

\* listTasks(): ORDER BY status ASC, order_index ASC, updated_at DESC.
StatusRank ==
  [s \in Range(TASK_STATUSES) |->
     CASE s = "blocked" -> 1 [] s = "done" -> 2 [] s = "in_progress" -> 3
       [] s = "parking_lot" -> 4 [] s = "todo" -> 5]

TaskListBefore(T, a, b) ==
  \/ StatusRank[T[a].status] < StatusRank[T[b].status]
  \/ /\ T[a].status = T[b].status
     /\ \/ T[a].order < T[b].order
        \/ T[a].order = T[b].order /\ T[a].updatedAt > T[b].updatedAt

\* listProjects(): ORDER BY updated_at DESC.
ProjectListBefore(P, a, b) == P[a].updatedAt > P[b].updatedAt

\* The orders in which listTasks() can return the rows: rows the ORDER BY
\* does not tell apart stand in any order.
TaskListings(T) ==
  {l \in Pools(DOMAIN T) :
     \A i, j \in 1..Len(l) : i < j => ~TaskListBefore(T, l[j], l[i])}

ProjectListings(P) ==
  {l \in Pools(DOMAIN P) :
     \A i, j \in 1..Len(l) : i < j => ~ProjectListBefore(P, l[j], l[i])}

\* What the resolver reads of the rows of a listing.
ItemsOf(rows, listing) ==
  [i \in 1..Len(listing) |->
     [id |-> listing[i], title |-> rows[listing[i]].title,
      source |-> rows[listing[i]].source]]

\* Candidates that keeps the items of every source.
Candidates_AnySource(items, source) == items

\* .filter((item) => item.source === source)
Candidates(items, source) == SelectSeq(items, LAMBDA item : item.source = source)

\* for (const item of pool) { if (!best || score > best.score) best = ... }:
\* the first item of the highest score.
BestOf(pool, title) ==
  CHOOSE i \in 1..Len(pool) :
    /\ \A j \in 1..Len(pool) :
         ~Greater(diceSimilarity(pool[j].title, title), diceSimilarity(pool[i].title, title))
    /\ \A j \in 1..(i - 1) :
         Greater(diceSimilarity(pool[i].title, title), diceSimilarity(pool[j].title, title))

FuzzyMatch(entityType, item, score) ==
  IF AtLeastThreshold(score)
  THEN [entityType |-> entityType, id |-> item.id, title |-> item.title,
        score |-> ToFixed2(score), kind |-> "fuzzy"]
  ELSE NullMatch

\* pool.find((item) => normalize(item.title) === normalize(title)), then the
\* best fuzzy score.
MatchIn(pool, entityType, title, exact) ==
  IF exact # {}
  THEN [entityType |-> entityType, id |-> pool[Min(exact)].id,
        title |-> pool[Min(exact)].title, score |-> 100, kind |-> "exact"]
  ELSE IF pool = <<>> THEN NullMatch
  ELSE FuzzyMatch(entityType, pool[BestOf(pool, title)],
                  diceSimilarity(pool[BestOf(pool, title)].title, title))

ExactIn(pool, title) ==
  {i \in 1..Len(pool) : normalize(pool[i].title) = normalize(title)}

\* findDuplicate(source, entityType, title) over the listing `items` of the
\* entities of that kind; NullMatch is null.  A score is in hundredths.
findDuplicate(source, entityType, title, items) ==
  MatchIn(Candidates(items, source), entityType, title,
          ExactIn(Candidates(items, source), title))

\* suggestedAction that proposes an update for a fuzzy match as well.
suggestedAction_UpdateOnAnyMatch(match) ==
  IF match.entityType = NullMatch.entityType THEN "create" ELSE "update"

suggestedAction(match) ==
  IF match.entityType = NullMatch.entityType THEN "create"
  ELSE IF match.kind = "exact" THEN "update" ELSE "skip"

\* error: null
NoError == "null"

\* values: {}
NoValues == [key \in {} |-> <<>>]

ErrorRow(line, values, error) ==
  [line |-> line, values |-> values, error |-> error,
   duplicateMatch |-> NullMatch, suggestedAction |-> "skip"]

MatchedRow(line, values, match) ==
  [line |-> line, values |-> values, error |-> NoError,
   duplicateMatch |-> match, suggestedAction |-> suggestedAction(match)]

\* The body of the loop over the parsed rows; `items` lists the entities of
\* the import's kind.
PreviewRow(values, line, source, entityType, items) ==
  IF Trim(Value(values, "title")) = <<>>
  THEN ErrorRow(line, values, "Missing required title")
  ELSE MatchedRow(line, values,
                  IF entityType # "null"
                  THEN findDuplicate(source, entityType, Trim(Value(values, "title")), items)
                  ELSE NullMatch)

PreviewRows(csv, source, entityType, items) ==
  [i \in 1..Len(csv.rows) |->
     PreviewRow(RowValues(csv.headers, csv.rows[i]), i + 1, source, entityType, items)]

PreviewSummary(headers, rows) ==
  [headers |-> headers, rows |-> rows,
   validRows |-> Len(rows) - Cardinality({i \in 1..Len(rows) : rows[i].error # NoError}),
   invalidRows |-> Cardinality({i \in 1..Len(rows) : rows[i].error # NoError})]

\* requiredHeaders.filter((required) => !headers.includes(required))
MissingHeaders(type, headers) ==
  SelectSeq(requiredHeadersByType(type), LAMBDA required : required \notin Range(headers))

PreviewOf(csv, type, taskItems, projectItems) ==
  IF MissingHeaders(type, csv.headers) # <<>>
  THEN [headers |-> csv.headers,
        rows |-> <<ErrorRow(1, NoValues, "Missing headers")>>,
        validRows |-> 0, invalidRows |-> 1]
  ELSE PreviewSummary(csv.headers,
                      PreviewRows(csv, typeToSource(type), typeToEntity(type),
                                  IF typeToEntity(type) = "task" THEN taskItems
                                  ELSE projectItems))

\* previewImport(payload), listTasks() and listProjects() returning
\* taskItems and projectItems.
previewImport(payload, taskItems, projectItems) ==
  PreviewOf(parseCsv(payload.text), payload.type, taskItems, projectItems)

\* POST /api/imports/preview: nothing is written.
PreviewImport(payload) ==
  /\ last = Idle
  /\ \E taskList \in TaskListings(db.tasks), projectList \in ProjectListings(db.projects) :
       last' = Call("previewImport", [payload |-> payload],
                    [response |-> previewImport(payload, ItemsOf(db.tasks, taskList),
                                                ItemsOf(db.projects, projectList)),
                     taskList |-> taskList, projectList |-> projectList])
  /\ UNCHANGED <<db, now>>

\* A commit of one row of the preview just returned, a row that has an
\* error: the row's values, any action, the row's match (the rows
\* handleCommitImport sends, without its forcing the action to skip).
CommitPreviewed(i, action, ts) ==
  /\ last.op = "previewImport"
  /\ last.res.response.rows[i].error # NoError
  /\ \E taskPool \in Pools(FreshTaskIds(db)),
        projectPool \in Pools(FreshProjectIds(db)),
        entryPool \in Pools(FreshEntryIds(db)) :
       LET row == last.res.response.rows[i]
           payload == [type |-> last.args.payload.type,
                       rows |-> <<CommitRowOf(row.values, action, row.duplicateMatch)>>]
           r == commitImport(db, payload, ts, taskPool, projectPool, entryPool)
       IN /\ r.ok
          /\ db' = r.db
          /\ now' = ts
          /\ last' = Call("commitImport", [payload |-> payload, ts |-> ts, previewed |-> row],
                          [response |-> r.response, changed |-> r.changed])

(***************************************************************************)
(* SpecPreview: previews of texts with and without the title column, over  *)
(* boards whose tasks and projects have like and unlike titles and         *)
(* sources; a previewed row that has an error is committed with any        *)
(* action.                                                                 *)
(***************************************************************************)
Abcd == <<"a", "b", "c", "d">>

Abcde == <<"a", "b", "c", "d", "e">>

PreviewTaskInputs ==
  {[title |-> Abcd, source |-> "apple_reminders"],
   [title |-> Abcde, source |-> "apple_reminders"],
   [title |-> Abcd]}

PreviewProjectInputs ==
  {[title |-> Abcd, source |-> "chatgpt"],
   [title |-> Abcde, source |-> "chatgpt"]}

\* "notes\nabcd\nabcd", " \n", "Title\nabcd", "title,notes\nabcd,n\n ,n\nabcde",
\* "notes, title \r\nn,ABCD!\r\n\r\nabxy\n", "title\nabxy"
PreviewTexts ==
  {FieldText["notes"] \o <<"\n">> \o Abcd \o <<"\n">> \o Abcd,
   <<" ", "\n">>,
   <<"T", "i", "t", "l", "e", "\n">> \o Abcd,
   FieldText["title"] \o <<",">> \o FieldText["notes"] \o <<"\n">> \o Abcd
     \o <<",", "n", "\n", " ", ",", "n", "\n">> \o Abcde,
   FieldText["notes"] \o <<",", " ">> \o FieldText["title"] \o <<" ", "\r", "\n">>
     \o <<"n", ",", "A", "B", "C", "D", "!", "\r", "\n", "\r", "\n">>
     \o <<"a", "b", "x", "y", "\n">>,
   FieldText["title"] \o <<"\n", "a", "b", "x", "y">>}

PreviewTypes == {"apple_reminders", "apple_notes", "chatgpt_projects"}

PreviewPayloads == {[type |-> type, text |-> text] : type \in PreviewTypes, text \in PreviewTexts}

NextPreview ==
  \/ last = Idle /\ \E input \in PreviewTaskInputs : CreateTask(input, now)
  \/ last = Idle /\ \E input \in PreviewProjectInputs : CreateProject(input, now)
  \/ last = Idle /\ \E payload \in PreviewPayloads : PreviewImport(payload)
  \/ last.op = "previewImport"
       /\ \E i \in 1..Len(last.res.response.rows), action \in {"create", "update", "skip"} :
            CommitPreviewed(i, action, now)
  \/ Respond

SpecPreview == Init /\ [][NextPreview]_vars

(***************************************************************************)
(* Properties of previewImport.                                            *)
(***************************************************************************)
IsPreview == last.op = "previewImport"

HasNoMatch(row) == row.duplicateMatch.entityType = NullMatch.entityType

\* C15: a row that previewImport returned with an error, committed with its
\* values and any action (create, update or skip), is counted in skippedRows
\* and nothing is created or updated: the store is as it was.
C15_ErrorRowsAreSkipped ==
  (IsCommit /\ Has(last.args, "previewed") /\ last.args.previewed.error # NoError) =>
    /\ last.res.response.skippedRows = 1
    /\ ChangedSum(last.res.response) = 0
    /\ db = last.pre

\* The row previewImport returns for a text without the title column is
\* committed with action create, and so is a row whose title is missing,
\* tasks being stored.
C15_Witness ==
  /\ IsCommit /\ Has(last.args, "previewed")
  /\ last.args.payload.rows[1].action = "create"
  /\ last.args.previewed.error = "Missing headers"
  /\ db.tasks # <<>>

\* C18: the preview of a text whose header line (the first line that is not
\* blank, if any) has no cell title holds exactly one row, with line 1, an
\* error and suggestedAction skip, and validRows 0 and invalidRows 1.
C18_MissingTitleHeader ==
  (IsPreview /\ FieldText["title"] \notin Range(parseCsv(last.args.payload.text).headers)) =>
    LET r == last.res.response
    IN /\ Len(r.rows) = 1
       /\ r.rows[1].line = 1
       /\ r.rows[1].error # NoError
       /\ r.rows[1].suggestedAction = "skip"
       /\ r.validRows = 0
       /\ r.invalidRows = 1

\* A notes preview of a text with a header line without title and two data
\* lines.
C18_Witness ==
  /\ IsPreview
  /\ last.args.payload.type = "apple_notes"
  /\ FieldText["title"] \notin Range(parseCsv(last.args.payload.text).headers)
  /\ Len(parseCsv(last.args.payload.text).rows) = 2
  /\ Len(last.res.response.rows) = 1

C19_Row(row) ==
  IF Trim(Value(row.values, "title")) = <<>>
  THEN /\ row.error # NoError
       /\ row.suggestedAction = "skip"
       /\ HasNoMatch(row)
  ELSE /\ row.error = NoError
       /\ typeToEntity(last.args.payload.type) = "null" => HasNoMatch(row)
       /\ row.suggestedAction =
            (IF HasNoMatch(row) THEN "create"
             ELSE IF row.duplicateMatch.kind = "exact" THEN "update"
             ELSE "skip")
       /\ ~HasNoMatch(row) => row.duplicateMatch.kind \in {"exact", "fuzzy"}

\* C19: in the preview of a text whose header has title there is one row
\* per data line; a row whose trimmed title is empty has an error,
\* suggestedAction skip and no match; any other row has no error and
\* suggestedAction update when its match is exact, skip when it is fuzzy,
\* create when it has none (a notes row never has one); validRows +
\* invalidRows is the number of rows and invalidRows the number of rows with
\* an error.
C19_RowsOfPreview ==
  (IsPreview /\ FieldText["title"] \in Range(parseCsv(last.args.payload.text).headers)) =>
    LET r == last.res.response
    IN /\ Len(r.rows) = Len(parseCsv(last.args.payload.text).rows)
       /\ \A i \in 1..Len(r.rows) : C19_Row(r.rows[i])
       /\ r.validRows + r.invalidRows = Len(r.rows)
       /\ r.invalidRows = Cardinality({i \in 1..Len(r.rows) : r.rows[i].error # NoError})

\* A preview with a row to update, a row with an error and a row to skip
\* for its fuzzy match.
C19_Witness ==
  /\ IsPreview
  /\ \E i, j, k \in 1..Len(last.res.response.rows) :
       /\ last.res.response.rows[i].suggestedAction = "update"
       /\ last.res.response.rows[j].error # NoError
       /\ last.res.response.rows[k].suggestedAction = "skip"
       /\ ~HasNoMatch(last.res.response.rows[k])

\* The stored entities of the import's kind and source.
Pool ==
  IF typeToEntity(last.args.payload.type) = "task"
  THEN {[id |-> t, title |-> db.tasks[t].title] :
          t \in {x \in DOMAIN db.tasks :
                   db.tasks[x].source = typeToSource(last.args.payload.type)}}
  ELSE {[id |-> q, title |-> db.projects[q].title] :
          q \in {x \in DOMAIN db.projects :
                   db.projects[x].source = typeToSource(last.args.payload.type)}}

C20_Row(row, title) ==
  /\ ~HasNoMatch(row) =>
       /\ row.duplicateMatch.entityType = typeToEntity(last.args.payload.type)
       /\ [id |-> row.duplicateMatch.id, title |-> row.duplicateMatch.title] \in Pool
  /\ (\E c \in Pool : normalize(c.title) = normalize(title)) =>
       /\ ~HasNoMatch(row)
       /\ row.duplicateMatch.kind = "exact"
       /\ row.duplicateMatch.score = 100
       /\ normalize(row.duplicateMatch.title) = normalize(title)

\* C20: the match findDuplicate returns for the title of a previewed row is
\* a stored entity of the import's kind whose source is the import's source;
\* when such an entity has a normalized title equal to the normalized title
\* of the row, the match is exact, of score 1, on an entity of that
\* normalized title.
C20_ExactWithinScope ==
  (IsPreview /\ typeToEntity(last.args.payload.type) # "null") =>
    \A i \in 1..Len(last.res.response.rows) :
      last.res.response.rows[i].error = NoError =>
        C20_Row(last.res.response.rows[i],
                Trim(Value(last.res.response.rows[i].values, "title")))

\* A row matches exactly a task that is listed after a task of the same
\* source whose title is similar enough for a fuzzy match, while a task of
\* the same title and another source is stored; the row's title differs
\* from the stored one in case and punctuation.
C20_Witness ==
  /\ IsPreview /\ last.args.payload.type = "apple_reminders"
  /\ \E i \in 1..Len(last.res.response.rows) :
       LET row == last.res.response.rows[i]
       IN /\ row.error = NoError /\ ~HasNoMatch(row)
          /\ row.duplicateMatch.kind = "exact"
          /\ row.values.title # row.duplicateMatch.title
          /\ \E t, u \in DOMAIN db.tasks :
               /\ db.tasks[t].source = "apple_reminders"
               /\ db.tasks[t].order < db.tasks[row.duplicateMatch.id].order
               /\ AtLeastThreshold(diceSimilarity(db.tasks[t].title, row.values.title))
               /\ db.tasks[u].source # "apple_reminders"
               /\ normalize(db.tasks[u].title) = normalize(row.values.title)

(***************************************************************************)
(* SpecResolver: the similarity of two titles and the duplicate resolver   *)
(* as functions of their arguments.  Nothing is stored.                    *)
(***************************************************************************)
MaxTitleLen == 3

MaxItems == 2

\* Letters of both cases, a blank and a character normalize blanks out.
TitleChars == {"a", "b", "A", " ", "!"}

Titles == SeqsUpTo(TitleChars, MaxTitleLen)

\* "abcdefghijk" and "abcdefghilmn": 12 and 13 bigrams, 9 of them shared.
Abcdefghijk == <<"a", "b", "c", "d", "e", "f", "g", "h", "i", "j", "k">>

Abcdefghilmn == <<"a", "b", "c", "d", "e", "f", "g", "h", "i", "l", "m", "n">>

Abxy == <<"a", "b", "x", "y">>

ResolverTitles == {Abcd, Abcde, Abxy, Abcdefghijk, Abcdefghilmn}

\* A listing of up to MaxItems entities of a kind: item i has the i-th id.
ResolverItems(entityType) ==
  {[i \in 1..n |->
      [id |-> IF entityType = "task" THEN i ELSE ToString(i),
       title |-> titles[i], source |-> sources[i]]] :
     n \in 0..MaxItems,
     titles \in [1..MaxItems -> ResolverTitles],
     sources \in [1..MaxItems -> {"apple_reminders", "mission_control"}]}

\* diceSimilarity(a, b)
DiceSimilarity(a, b) ==
  /\ last = Idle
  /\ last' = Call("diceSimilarity", [a |-> a, b |-> b], [score |-> diceSimilarity(a, b)])
  /\ UNCHANGED <<db, now>>

\* findDuplicate(source, entityType, title), the listing returning `items`.
FindDuplicate(source, entityType, title, items) ==
  /\ last = Idle
  /\ last' = Call("findDuplicate",
                  [source |-> source, entityType |-> entityType, title |-> title,
                   items |-> items],
                  [match |-> findDuplicate(source, entityType, title, items)])
  /\ UNCHANGED <<db, now>>

NextResolver ==
  \/ last = Idle /\ \E a, b \in Titles : DiceSimilarity(a, b)
  \/ last = Idle
       /\ \E entityType \in {"task", "project"}, title \in ResolverTitles :
            \E items \in ResolverItems(entityType) :
              FindDuplicate("apple_reminders", entityType, title, items)
  \/ Respond

SpecResolver == Init /\ [][NextResolver]_vars

(***************************************************************************)
(* Properties of the resolver.                                             *)
(***************************************************************************)
IsFind == last.op = "findDuplicate"

IsDice == last.op = "diceSimilarity"

\* The positions of the listed items of the requested source.
Scoped == {i \in 1..Len(last.args.items) : last.args.items[i].source = last.args.source}

SimilarityTo(i) == diceSimilarity(last.args.items[i].title, last.args.title)

\* C21: when no candidate of the requested source is normalized-equal to
\* the title, findDuplicate returns a match exactly when some candidate's
\* similarity is at least 72/100; the match is fuzzy and names a candidate
\* whose similarity no other candidate exceeds.
C21_FuzzyAtThreshold ==
  (IsFind /\ \A i \in Scoped :
               normalize(last.args.items[i].title) # normalize(last.args.title)) =>
    LET match == last.res.match
    IN /\ match.entityType # NullMatch.entityType
            <=> \E i \in Scoped : 100 * SimilarityTo(i).num >= 72 * SimilarityTo(i).den
       /\ match.entityType # NullMatch.entityType =>
            /\ match.kind = "fuzzy"
            /\ match.entityType = last.args.entityType
            /\ \E i \in Scoped :
                 /\ last.args.items[i].id = match.id
                 /\ last.args.items[i].title = match.title
                 /\ \A j \in Scoped :
                      SimilarityTo(j).num * SimilarityTo(i).den
                        <= SimilarityTo(i).num * SimilarityTo(j).den

\* Two candidates of the source, the second of similarity exactly 18/25 =
\* 0.72 and the first of a smaller one: the second is returned.
C21_Witness ==
  /\ IsFind /\ Scoped = {1, 2}
  /\ SimilarityTo(2) = [num |-> 18, den |-> 25]
  /\ SimilarityTo(1).num * 25 < 18 * SimilarityTo(1).den
  /\ last.res.match.entityType = "task"
  /\ last.res.match.id = 2
  /\ last.res.match.kind = "fuzzy"

\* C22: diceSimilarity(a, b) = diceSimilarity(b, a), the value lies in
\* [0, 1], and diceSimilarity(s, s) = 1.
C22_SymmetricInRange ==
  IsDice =>
    /\ last.res.score.num * diceSimilarity(last.args.b, last.args.a).den
         = diceSimilarity(last.args.b, last.args.a).num * last.res.score.den
    /\ last.res.score.den > 0
    /\ 0 <= last.res.score.num /\ last.res.score.num <= last.res.score.den
    /\ last.args.a = last.args.b => last.res.score.num = last.res.score.den

\* Two titles of different lengths whose similarity is strictly between 0
\* and 1.
C22_Witness ==
  /\ IsDice /\ Len(last.args.a) < Len(last.args.b)
  /\ 0 < last.res.score.num /\ last.res.score.num < last.res.score.den

\* C23: diceSimilarity(a, b) is 1 if and only if normalize(a) and
\* normalize(b) are the same non-empty string.
C23_OneIffSameNormalized ==
  IsDice =>
    (last.res.score.num = last.res.score.den
       <=> /\ normalize(last.args.a) = normalize(last.args.b)
           /\ normalize(last.args.a) # <<>>)

(***************************************************************************)
(* The line numbers of previewImport (SpecPreview).                        *)
(***************************************************************************)
\* The 1-based position in the text of its k-th line that is not blank.
PositionOfNonBlank(text, k) ==
  CHOOSE i \in 1..Len(SplitLines(text)) :
    /\ Trim(SplitLines(text)[i]) # <<>>
    /\ Cardinality({j \in 1..i : Trim(SplitLines(text)[j]) # <<>>}) = k

\* C24: in the preview of a text whose header has title, the line of each
\* row is the 1-based position in the text of the line the row was parsed
\* from (the row of the k-th data line comes from the (k+1)-th line that is
\* not blank).
C24_LineIsSourcePosition ==
  (IsPreview /\ FieldText["title"] \in Range(parseCsv(last.args.payload.text).headers)) =>
    \A k \in 1..Len(last.res.response.rows) :
      last.res.response.rows[k].line = PositionOfNonBlank(last.args.payload.text, k + 1)

(***************************************************************************)
(* SpecRepair: the lane repairs.  The clock runs; updateTask changes the   *)
(* status with and without an order, so a lane holds equal order values    *)
(* when it is repaired.                                                    *)
(***************************************************************************)
RepairLanes == {"todo", "done"}

RepairPatches == {[order |-> 0], [status |-> "done"], [status |-> "done", order |-> 0]}

RepairLists == {l \in SeqsUpTo(TaskIds, 1) : NoRepeat(l)}

NextRepair ==
  \/ last = Idle /\ \E input \in TieCreateInputs, ts \in Ticks : CreateTask(input, ts)
  \/ last = Idle /\ \E id \in TaskIds, patch \in RepairPatches, ts \in Ticks :
                      UpdateTask(id, patch, ts)
  \/ last = Idle /\ \E m \in TaskIds, s \in RepairLanes, ids \in RepairLists, ts \in Ticks :
                      ReorderTasksInLane(m, s, ids, ts, FALSE)
  \/ last = Idle /\ \E id \in TaskIds : DeleteTask(id)
  \/ Respond

SpecRepair == Init /\ [][NextRepair]_vars

(***************************************************************************)
(* Properties of the lane repairs.                                         *)
(***************************************************************************)
\* The members of the lane hold 0..n-1 in db, in the sequence the claim's
\* order (order ascending, updated time descending, id ascending) gives
\* them in T, the tasks as the repair found them.
RepairedInOrder(T, status) ==
  /\ Lane(db.tasks, status) = Lane(T, status)
  /\ DenseLane(db.tasks, status)
  /\ \A a, b \in Lane(T, status) :
       C3_Before(T, a, b) => db.tasks[a].order < db.tasks[b].order

\* After deleteTask: the lane of the deleted task.
C25_AfterDelete ==
  (last.op = "deleteTask" /\ last.res.result) =>
    RepairedInOrder(Without(last.pre.tasks, last.args.id),
                    last.pre.tasks[last.args.id].status)

\* After an accepted reorder into another lane: the lane the moved task
\* left (the writes of the target lane touch none of its other members).
C25_AfterReorder ==
  (IsReorder /\ last.res.result = "ok"
     /\ last.pre.tasks[last.args.movedTaskId].status # last.args.toStatus) =>
    RepairedInOrder([last.pre.tasks EXCEPT ![last.args.movedTaskId].status =
                                             last.args.toStatus],
                    last.pre.tasks[last.args.movedTaskId].status)

\* After an updateTask that changed the status: every lane, as the UPDATE of
\* the row left it.
C25_AfterStatusChange ==
  (IsUpdate /\ last.res.result = "ok" /\ Has(last.args.patch, "status")
     /\ last.pre.tasks[last.args.id].status # last.args.patch.status) =>
    \A k \in 1..Len(TASK_STATUSES) :
      RepairedInOrder([last.pre.tasks EXCEPT ![last.args.id] =
                         PatchedTask(last.pre.tasks, last.pre.projects,
                                     last.pre.tasks[last.args.id], last.args.patch,
                                     last.args.ts)],
                      TASK_STATUSES[k])

\* C25: every lane repair (after deleteTask, of the source lane in a
\* reorder, of the whole board after an updateTask that changed the status)
\* gives the members of the lane 0..n-1 in the sequence (order ascending,
\* updated time descending, id ascending), also when members hold the same
\* order value.
C25_RepairsFollowTieBreak ==
  /\ C25_AfterDelete
  /\ C25_AfterReorder
  /\ C25_AfterStatusChange

(***************************************************************************)
(* The completion time (Spec).                                             *)
(***************************************************************************)
\* C26: in every reachable state a task's completedAt is set if and only
\* if its status is done.
C26_CompletedIffDone ==
  \A id \in DOMAIN db.tasks :
    db.tasks[id].completedAt # NullTime <=> db.tasks[id].status = "done"

\* C30: a reorder, accepted or rejected, adds and removes no task; an
\* accepted one changes no task's title, details, priority, projectId,
\* source or recurrence, and leaves the status and order of every task
\* that was neither in the lane the moved task came from nor in toStatus.
C30_ReorderFrame ==
  IsReorder =>
    /\ DOMAIN db.tasks = DOMAIN last.pre.tasks
    /\ last.res.result = "ok" =>
         \A id \in DOMAIN last.pre.tasks :
           /\ \A f \in {"title", "details", "priority", "projectId", "source", "recurrence"} :
                db.tasks[id][f] = last.pre.tasks[id][f]
           /\ last.pre.tasks[id].status
                \notin {last.pre.tasks[last.args.movedTaskId].status, last.args.toStatus} =>
                /\ db.tasks[id].status = last.pre.tasks[id].status
                /\ db.tasks[id].order = last.pre.tasks[id].order

\* An accepted move into another lane while a task stands in a third lane;
\* a task of the lane left gets another order.
C30_Witness ==
  /\ IsReorder /\ last.res.result = "ok"
  /\ last.pre.tasks[last.args.movedTaskId].status # last.args.toStatus
  /\ \E id, other \in DOMAIN last.pre.tasks :
       /\ last.pre.tasks[id].status
            \notin {last.pre.tasks[last.args.movedTaskId].status, last.args.toStatus}
       /\ other # last.args.movedTaskId
       /\ last.pre.tasks[other].status = last.pre.tasks[last.args.movedTaskId].status
       /\ db.tasks[other].order # last.pre.tasks[other].order

(***************************************************************************)
(* SpecReimport: the import dialog.  A text is previewed, the preview is   *)
(* committed with the suggested action of every row, and the same text is  *)
(* previewed and committed once more, no other request in between.         *)
(***************************************************************************)
\* The import counter of a source stays within this bound.
MaxReimported == 4

\* handleCommitImport: the rows of the preview, each with its values, its
\* selected action (the suggested one; skip for a row with an error) and its
\* match.
SuggestedRows(rows) ==
  [i \in 1..Len(rows) |->
     CommitRowOf(rows[i].values,
                 IF rows[i].error # NoError THEN "skip" ELSE rows[i].suggestedAction,
                 rows[i].duplicateMatch)]

\* Commit of the preview just returned; round counts the previews of the
\* text in this dialog.
CommitSuggested(ts) ==
  /\ last.op = "previewImport"
  /\ \E taskPool \in Pools(FreshTaskIds(db)),
        projectPool \in Pools(FreshProjectIds(db)),
        entryPool \in Pools(FreshEntryIds(db)) :
       LET payload == [type |-> last.args.payload.type,
                       rows |-> SuggestedRows(last.res.response.rows)]
           r == commitImport(db, payload, ts, taskPool, projectPool, entryPool)
       IN /\ r.ok
          /\ typeToSource(payload.type) \in DOMAIN r.db.imports
               => r.db.imports[typeToSource(payload.type)].importedCount <= MaxReimported
          /\ db' = r.db
          /\ now' = ts
          /\ last' = Call("commitImport",
                          [payload |-> payload, ts |-> ts,
                           text |-> last.args.payload.text,
                           round |-> IF Has(last.args, "round") THEN 2 ELSE 1],
                          [response |-> r.response, changed |-> r.changed])

\* The preview of the text just committed, asked for again.
PreviewAgain ==
  /\ last.op = "commitImport" /\ Has(last.args, "round") /\ last.args.round = 1
  /\ \E taskList \in TaskListings(db.tasks), projectList \in ProjectListings(db.projects) :
       LET payload == [type |-> last.args.payload.type, text |-> last.args.text]
       IN last' = Call("previewImport", [payload |-> payload, round |-> 2],
                       [response |-> previewImport(payload, ItemsOf(db.tasks, taskList),
                                                   ItemsOf(db.projects, projectList)),
                        taskList |-> taskList, projectList |-> projectList])
  /\ UNCHANGED <<db, now>>

ReimportTaskInputs == {[title |-> Abcd, source |-> "apple_reminders"]}

\* "title\nabcd\nABCD!", "title,notes\nabcde,n\n,n"
ReimportTexts ==
  {FieldText["title"] \o <<"\n">> \o Abcd \o <<"\n", "A", "B", "C", "D", "!">>,
   FieldText["title"] \o <<",">> \o FieldText["notes"] \o <<"\n">> \o Abcde
     \o <<",", "n", "\n", ",", "n">>}

ReimportPayloads ==
  {[type |-> type, text |-> text] :
     type \in {"apple_reminders", "chatgpt_projects"}, text \in ReimportTexts}

NextReimport ==
  \/ last = Idle /\ \E input \in ReimportTaskInputs : CreateTask(input, now)
  \/ last = Idle /\ \E payload \in ReimportPayloads : PreviewImport(payload)
  \/ last.op = "previewImport" /\ CommitSuggested(now)
  \/ last.op = "commitImport" /\ PreviewAgain
  \/ Respond

SpecReimport == Init /\ [][NextReimport]_vars

(***************************************************************************)
(* Properties of the import dialog.                                        *)
(***************************************************************************)
\* C27: for an import of tasks or projects, the preview of a text that was
\* just previewed and committed with every row's suggested action suggests
\* create for no row, and the commit of that second preview's suggestions
\* returns createdTasks = 0 and createdProjects = 0.
C27_ReimportCreatesNothing ==
  /\ (IsPreview /\ Has(last.args, "round")
        /\ typeToEntity(last.args.payload.type) \in {"task", "project"}) =>
       \A i \in 1..Len(last.res.response.rows) :
         last.res.response.rows[i].suggestedAction # "create"
  /\ (IsCommit /\ Has(last.args, "round") /\ last.args.round = 2
        /\ typeToEntity(last.args.payload.type) \in {"task", "project"}) =>
       /\ last.res.response.createdTasks = 0
       /\ last.res.response.createdProjects = 0

\* The second commit of a text whose two rows the first commit created as
\* tasks: both are updated.
C27_Witness ==
  /\ IsCommit /\ Has(last.args, "round") /\ last.args.round = 2
  /\ last.args.payload.type = "apple_reminders"
  /\ last.res.response.updatedTasks = 2
  /\ Cardinality(DOMAIN db.tasks) = 2
  /\ db.imports["apple_reminders"].importedCount = 4

(***************************************************************************)
(* The board of the dashboard: the client's task list, the optimistic      *)
(* reorder and the drop handler.  A client task is the record of the       *)
(* fields the board reads: id, status, order, updatedAt.                   *)
(***************************************************************************)
statusOrder == [s \in Range(TASK_STATUSES) |-> IndexOf(TASK_STATUSES, s) - 1]

\* Array.prototype.sort by a comparator: items it does not tell apart keep
\* their sequence.
StableSort(items, Before(_, _)) ==
  LET pos == Sorted(1..Len(items),
                    LAMBDA i, j : \/ Before(items[i], items[j])
                                  \/ ~Before(items[j], items[i]) /\ i < j)
  IN [k \in 1..Len(items) |-> items[pos[k]]]

sortTasks(tasks) ==
  StableSort(tasks,
             LAMBDA a, b :
               \/ statusOrder[a.status] < statusOrder[b.status]
               \/ a.status = b.status /\ a.order < b.order
               \/ a.status = b.status /\ a.order = b.order /\ a.updatedAt > b.updatedAt)

laneTasksByOrder(tasks, status) ==
  StableSort(SelectSeq(tasks, LAMBDA task : task.status = status),
             LAMBDA a, b :
               \/ a.order < b.order
               \/ a.order = b.order /\ a.updatedAt > b.updatedAt)

\* .map((task) => task.id)
Ids(tasks) == [i \in 1..Len(tasks) |-> tasks[i].id]

\* lanes[toStatus] = [...front, ...tail]
DroppedLane(next, movedTaskId, toStatus, orderedTaskIds) ==
  LET existingLane == SelectSeq(Ids(laneTasksByOrder(next, toStatus)),
                                LAMBDA id : id # movedTaskId)
      front == SelectSeq(orderedTaskIds,
                         LAMBDA id : id \in Range(existingLane) \/ id = movedTaskId)
      tail == SelectSeq(existingLane, LAMBDA id : id \notin Range(front))
  IN front \o tail

\* lanes[status].forEach((id, index) => { task.order = index }): the ids of
\* the lane of `task`, and the order the loop leaves it.
Renumbered(task, lane) ==
  IF task.id \in Range(lane)
  THEN [task EXCEPT !.order = Max({k \in 1..Len(lane) : lane[k] = task.id}) - 1]
  ELSE task

\* applyLocalReorder that renumbers the lane dropped into and no other.
applyLocalReorder_TargetLaneOnly(tasks, movedTaskId, toStatus, orderedTaskIds) ==
  IF \A i \in 1..Len(tasks) : tasks[i].id # movedTaskId THEN tasks
  ELSE LET next == [i \in 1..Len(tasks) |->
                      IF tasks[i].id = movedTaskId
                      THEN [tasks[i] EXCEPT !.status = toStatus] ELSE tasks[i]]
       IN sortTasks([i \in 1..Len(next) |->
                       IF next[i].status = toStatus
                       THEN Renumbered(next[i], DroppedLane(next, movedTaskId, toStatus,
                                                            orderedTaskIds))
                       ELSE next[i]])

applyLocalReorder(tasks, movedTaskId, toStatus, orderedTaskIds) ==
  IF \A i \in 1..Len(tasks) : tasks[i].id # movedTaskId THEN tasks
  ELSE LET next == [i \in 1..Len(tasks) |->
                      IF tasks[i].id = movedTaskId
                      THEN [tasks[i] EXCEPT !.status = toStatus] ELSE tasks[i]]
       IN sortTasks([i \in 1..Len(next) |->
                       Renumbered(next[i],
                                  IF next[i].status = toStatus
                                  THEN DroppedLane(next, movedTaskId, toStatus, orderedTaskIds)
                                  ELSE Ids(laneTasksByOrder(next, next[i].status)))])

\* The orderedTaskIds handleDrop builds: the lane without the dragged task,
\* the dragged task spliced in before beforeId or pushed at the end.
\* EmptyId is a null beforeId.
DropLaneIds(tasks, draggedTaskId, toStatus, beforeId) ==
  LET laneIds == SelectSeq(Ids(laneTasksByOrder(tasks, toStatus)),
                           LAMBDA id : id # draggedTaskId)
  IN IF beforeId # EmptyId /\ beforeId \in Range(laneIds)
     THEN SubSeq(laneIds, 1, IndexOf(laneIds, beforeId) - 1) \o <<draggedTaskId>>
            \o SubSeq(laneIds, IndexOf(laneIds, beforeId), Len(laneIds))
     ELSE Append(laneIds, draggedTaskId)

\* setTasks(sortTasks(items)) of the rows GET /api/tasks returned in the
\* sequence `listing`.
ClientTasks(T, listing) ==
  sortTasks([i \in 1..Len(listing) |->
               [id |-> listing[i], status |-> T[listing[i]].status,
                order |-> T[listing[i]].order, updatedAt |-> T[listing[i]].updatedAt]])

\* handleDrop(toStatus, beforeId) with draggedTaskId the dragged card, the
\* client's list being the server's: the optimistic list is computed and
\* the request is served.
HandleDrop(draggedTaskId, toStatus, beforeId, ts) ==
  /\ last = Idle
  /\ draggedTaskId \in DOMAIN db.tasks
  /\ \E listing \in TaskListings(db.tasks) :
       LET laneIds == DropLaneIds(ClientTasks(db.tasks, listing), draggedTaskId,
                                  toStatus, beforeId)
           r == reorderTasksInLane(db, draggedTaskId, toStatus, laneIds, ts, 0)
       IN /\ db' = r.db
          /\ now' = IF r.result = "null" THEN now ELSE ts
          /\ last' = Call("handleDrop",
                          [movedTaskId |-> draggedTaskId, toStatus |-> toStatus,
                           beforeId |-> beforeId, orderedTaskIds |-> laneIds, ts |-> ts],
                          [result |-> r.result,
                           optimistic |-> applyLocalReorder(ClientTasks(db.tasks, listing),
                                                            draggedTaskId, toStatus, laneIds)])

(***************************************************************************)
(* SpecDrop: tasks are created in and moved between three lanes, deleted,  *)
(* and dragged on the board.                                               *)
(***************************************************************************)
NextDrop ==
  \/ last = Idle /\ \E input \in LaneCreateInputs : CreateTask(input, now)
  \/ last = Idle /\ \E id \in TaskIds, patch \in LanePatches : UpdateTask(id, patch, now)
  \/ last = Idle /\ \E id \in TaskIds, s \in LaneInputs, beforeId \in TaskIds \cup {EmptyId} :
                      HandleDrop(id, s, beforeId, now)
  \/ last = Idle /\ \E id \in TaskIds : DeleteTask(id)
  \/ Respond

SpecDrop == Init /\ [][NextDrop]_vars

\* C28: when every lane is dense and the client's list is the server's, the
\* request handleDrop builds is accepted and the optimistic list of
\* applyLocalReorder holds the tasks the server holds after the request,
\* each with the status and order the server gave it.
C28_OptimisticMatchesServer ==
  (last.op = "handleDrop" /\ Dense(last.pre.tasks)) =>
    /\ last.res.result = "ok"
    /\ {last.res.optimistic[i].id : i \in 1..Len(last.res.optimistic)} = DOMAIN db.tasks
    /\ Len(last.res.optimistic) = Cardinality(DOMAIN db.tasks)
    /\ \A i \in 1..Len(last.res.optimistic) :
         /\ last.res.optimistic[i].status = db.tasks[last.res.optimistic[i].id].status
         /\ last.res.optimistic[i].order = db.tasks[last.res.optimistic[i].id].order

\* A task is dropped into another lane before a task of that lane, leaving
\* behind a lane that needs renumbering.
C28_Witness ==
  /\ last.op = "handleDrop" /\ Dense(last.pre.tasks)
  /\ last.pre.tasks[last.args.movedTaskId].status # last.args.toStatus
  /\ last.args.beforeId \in Lane(last.pre.tasks, last.args.toStatus)
  /\ db.tasks[last.args.movedTaskId].order < db.tasks[last.args.beforeId].order
  /\ \E other \in DOMAIN db.tasks :
       /\ other # last.args.movedTaskId
       /\ last.pre.tasks[other].status = last.pre.tasks[last.args.movedTaskId].status
       /\ db.tasks[other].order # last.pre.tasks[other].order

(***************************************************************************)
(* Requests in flight.  The store's task functions touch the database      *)
(* synchronously (better-sqlite3) and contain one await, updateTask's      *)
(* `await createTask(...)`, whose callee has run to its end when the       *)
(* caller suspends: createTask, updateTask, reorderTasksInLane and         *)
(* deleteTask each change the store in one step.  commitImport suspends at *)
(* the `await updateTask(...)` / `await createTask(...)` of every row it   *)
(* does not skip, and at `await bumpImportStatus(...)`.  In SpecAwait,     *)
(* last.res is the sequence of the imports in flight: for each, the type,  *)
(* the rows not yet reached and the counters.                              *)
(***************************************************************************)
MaxFlights == 2

Flights == last.res

InFlight(flights) ==
  IF flights = <<>> THEN Idle
  ELSE [op |-> "inflight", args |-> <<>>, pre |-> <<>>, res |-> flights]

\* The loop of commitImport from where it stands to its next await: rows
\* that are skipped, then one row that calls updateTask or createTask.
\* awaits is FALSE when the rows ran out first.
RECURSIVE RunToAwait(_, _, _, _)
RunToAwait(st, type, rows, ts) ==
  IF rows = <<>> THEN [st |-> st, rows |-> rows, awaits |-> FALSE]
  ELSE IF Trim(Value(Head(rows).values, "title")) = <<>> \/ Head(rows).action = "skip"
  THEN RunToAwait(CommitRow(st, type, Head(rows),
                            Trim(Value(Head(rows).values, "title")), ts),
                  type, Tail(rows), ts)
  ELSE [st |-> CommitRow(st, type, Head(rows),
                         Trim(Value(Head(rows).values, "title")), ts),
        rows |-> Tail(rows), awaits |-> TRUE]

\* What a run leaves: the store, and the import if it still is in flight
\* (bumpImportStatus has run when it is not).
AfterRun(run, type, ts) ==
  [ok |-> run.st.ok,
   db |-> IF run.awaits THEN run.st.db
          ELSE CommitResult(run.st, typeToSource(type), ts).db,
   flight |-> IF run.awaits
              THEN <<[type |-> type, rows |-> run.rows,
                      st |-> [run.st EXCEPT !.db = <<>>, !.taskPool = <<>>]]>>
              ELSE <<>>]

\* The outcome `a` of a run takes effect; flights are the other imports in
\* flight, before and behind.
Suspend(a, before, behind, type, ts) ==
  /\ a.ok
  /\ typeToSource(type) \in DOMAIN a.db.imports
       => a.db.imports[typeToSource(type)].importedCount <= MaxChanged
  /\ db' = a.db
  /\ now' = ts
  /\ last' = InFlight(before \o a.flight \o behind)

\* POST /api/imports/commit arrives while other imports are in flight.
StartImport(payload, ts) ==
  /\ Len(Flights) < MaxFlights
  /\ \E nid \in FreshTaskIds(db) \cup {EmptyId} :
       Suspend(AfterRun(RunToAwait(CommitStart(db, ts, IF nid = EmptyId THEN <<>> ELSE <<nid>>,
                                               <<>>, <<>>),
                                   payload.type, normalizeCommitRows(payload.rows), ts),
                        payload.type, ts),
               Flights, <<>>, payload.type, ts)

\* The awaited call of import i has returned: the loop goes on.
ResumeImport(i, ts) ==
  /\ i \in 1..Len(Flights)
  /\ \E nid \in FreshTaskIds(db) \cup {EmptyId} :
       Suspend(AfterRun(RunToAwait([Flights[i].st EXCEPT
                                      !.db = db,
                                      !.taskPool = IF nid = EmptyId THEN <<>> ELSE <<nid>>],
                                   Flights[i].type, Flights[i].rows, ts),
                        Flights[i].type, ts),
               SubSeq(Flights, 1, i - 1), SubSeq(Flights, i + 1, Len(Flights)),
               Flights[i].type, ts)

\* The other requests, served while imports are suspended.
CreateTaskMeanwhile(input, ts) ==
  /\ \E id \in FreshTaskIds(db) : db' = createTask(db, input, id, ts)
  /\ now' = ts
  /\ UNCHANGED last

UpdateTaskMeanwhile(id, patch, ts) ==
  /\ \E nid \in FreshTaskIds(db) \cup {EmptyId} :
       /\ updateTask(db, id, patch, ts, nid).spawned <=> nid # EmptyId
       /\ db' = updateTask(db, id, patch, ts, nid).db
  /\ now' = ts
  /\ UNCHANGED last

ReorderMeanwhile(movedTaskId, toStatus, orderedTaskIds, ts) ==
  /\ db' = reorderTasksInLane(db, movedTaskId, toStatus, orderedTaskIds, ts, 0).db
  /\ now' = ts
  /\ UNCHANGED last

DeleteTaskMeanwhile(id) ==
  /\ db' = deleteTask(db, id).db
  /\ UNCHANGED <<now, last>>

(***************************************************************************)
(* SpecAwait: up to MaxFlights reminder imports in flight, the other task  *)
(* requests served in between.                                             *)
(***************************************************************************)
AwaitLanes == {"todo", "done"}

\* Imports that create, update (a task that may be gone by then) and skip.
AwaitPayloads ==
  {[type |-> "apple_reminders",
    rows |-> <<CommitRowOf([title |-> LaneTitle], "create", NullMatch),
               CommitRowOf([title |-> LaneTitle, status |-> <<"d", "o", "n", "e">>],
                           "create", NullMatch)>>],
   [type |-> "apple_reminders",
    rows |-> <<CommitRowOf([title |-> LaneTitle], "skip", NullMatch),
               CommitRowOf([title |-> LaneTitle], "create", NullMatch),
               CommitRowOf([title |-> LaneTitle, status |-> <<"d", "o", "n", "e">>],
                           "update", TaskMatch)>>]}

NextAwait ==
  \/ \E payload \in AwaitPayloads : StartImport(payload, now)
  \/ \E i \in 1..MaxFlights : ResumeImport(i, now)
  \/ \E s \in AwaitLanes : CreateTaskMeanwhile([title |-> LaneTitle, status |-> s], now)
  \/ \E id \in TaskIds, s \in AwaitLanes : UpdateTaskMeanwhile(id, [status |-> s], now)
  \/ \E m \in TaskIds, s \in AwaitLanes : ReorderMeanwhile(m, s, <<m>>, now)
  \/ \E id \in TaskIds : DeleteTaskMeanwhile(id)

SpecAwait == Init /\ [][NextAwait]_vars

\* C29: with imports in flight and createTask, updateTask (no order patch),
\* reorderTasksInLane and deleteTask served between their awaits, the order
\* values of every lane are exactly 0..n-1 at every await point and when no
\* request is left in flight.
C29_DenseAtAwaitPoints ==
  \A s \in Range(TASK_STATUSES) :
    {db.tasks[id].order : id \in Lane(db.tasks, s)} = 0..(Cardinality(Lane(db.tasks, s)) - 1)

\* Two imports are suspended, each with rows left and a task created, and
\* a lane holds two tasks.
C29_Witness ==
  /\ Len(Flights) = 2
  /\ \A i \in 1..2 : Flights[i].rows # <<>> /\ Flights[i].st.createdTasks > 0
  /\ \E s \in Range(TASK_STATUSES) : Cardinality(Lane(db.tasks, s)) = 2

====
